---- MODULE Spec2Model ----
(***************************************************************************)
(* A model of VibePy: the play-and-record primitive, the compensation      *)
(* engine (compensation.py), the calibration engine (calibration.py) and   *)
(* the playback module (playback.py).                                      *)
(*                                                                         *)
(* Numbers.  The program computes in floating point; the model computes    *)
(* exactly, in the rationals <<n, d>> (d > 0, lowest terms) and, where the *)
(* filter design brings in cos(pi/4), in the numbers (p + q*sqrt(2))/d,    *)
(* written <<p, q, d>> (q # 0, d > 0, lowest terms).                       *)
(*                                                                         *)
(* Waveforms.  A numpy array of samples is the record                      *)
(*   [len |-> number of samples, nz |-> [index -> nonzero sample]]         *)
(* with 0-based indices as in the source; an index outside DOMAIN nz holds *)
(* the sample 0.  Every array of the program has exactly one such record.  *)
(***************************************************************************)
EXTENDS Integers, Sequences, FiniteSets, TLC

VARIABLES
    tp_pc,        \* transfer primitive: "idle" | "returned"
    tp_module,    \* which play_and_record was called
    tp_playback,  \* the waveform handed to play_and_record
    tp_fs,        \* sampling rate of the call
    tp_padding,   \* with_padding argument (playback.py), TRUE in the engines
    tp_emitted,   \* what was handed to sd.playrec
    tp_captured,  \* what sd.playrec returned
    tp_result,    \* what play_and_record returned, or the exception raised
    cl_pc,        \* compensate: "idle" | "done"
    cl_stimulus,  \* compensate's stimulus argument
    cl_filter,    \* compensate's compensation_filter argument (the taps)
    cl_filtered,  \* signal.lfilter's result inside compensate
    cl_out,       \* what compensate returned
    files,        \* storage: the set of <<file name, waveform>> pairs
    exp_compensation_filter,   \* Experiment.compensation_filter
    exp_compensated_filename,  \* Experiment.compensated_filename
    exp_stimulus,              \* Experiment.stimulus
    exp_calibration_mulitplier,\* Experiment.calibration_mulitplier
    exp_calibrated_filename,   \* Experiment.calibrated_filename
    cm_pc,        \* compensation.main: "idle" | "probe" | "verify" | "ask" |
                  \* "final_play" | "returned" | "raised" (sd.playrec
                  \* raised) | "value_error" (ValueError left main)
    cm_args,      \* main's arguments fs, fft, low_freq, high_freq, stimulus_filename
    cm_channel,   \* the hardware chain of this run (gain, delay)
    cm_round,     \* number of the current pass through the while loop
    cm_stimulus,  \* stimulus
    cm_band,      \* [lo, hi]
    cm_noise,     \* noise
    cm_playback,  \* playback
    cm_recording_of_noise,
    cm_compensation_filter,
    cm_compensated_noise,
    cm_recording_of_compensated_noise,
    cm_final_compensation_filter,
    cm_compensated_stimulus,
    cm_recording_of_compensated_stimulus,
    cm_returned,  \* what main returned: <<filter, file name>>
    fn,           \* the calibration function called on its own, or "none"
    fn_args,      \* its arguments
    fn_result,    \* what it returned, or the exception raised
    ca_pc,        \* calibration.main: "idle" | "started" | "delay_known" |
                  \* "ladder_built" | "calibrated" | "returned" | "raised"
    ca_args,      \* main's arguments
    ca_channel,   \* the hardware chain of this run (gain, delay)
    ca_playback,  \* playback, the waveform read from the file
    ca_time_delay,
    ca_peak,      \* <<playback_peak_location, recording_peak_amp>>
    ca_segment,
    ca_ladder,    \* steps, playback_ladder, playback_segment_locations
    ca_recording_peaks,
    ca_polynomial,
    ca_multiplier,
    ca_calibrated_playback,
    ca_log,       \* the lines printed so far
    ca_error,     \* the exception that left main, or "none"
    ca_returned,  \* what main returned: <<multiplier, calibrated file name>>
    app_pc,       \* application.main: "idle" | "raised" | "declined" | "done"
    app_name,     \* experiment_name
    app_answers,  \* the operator's three answers to request_experiment_actions
    app_selected, \* compensate, calibrate, playback
    app_executed, \* the stages main has started, in order
    app_error,    \* the exception that left main, or "none"
    ss_pc,        \* a session on one Experiment: "idle" | "compensation"
    ss_channel,   \* the hardware chain of the session (gain, delay)
    ss_calls,     \* number of Experiment methods called so far
    ss_op,        \* the method called last ("set_stimulus" | "compensation" |
                  \* "calibration" | "playback"), or "none"
    ss_filename,  \* the file name that method handed to its engine
    ss_read,      \* the file that engine read, or NoneName
    ss_error,     \* the exception that left that method, or "none"
    ss_recording  \* what playback.main returned last

tpVars == <<tp_pc, tp_module, tp_playback, tp_fs, tp_padding, tp_emitted,
            tp_captured, tp_result>>

clVars == <<cl_pc, cl_stimulus, cl_filter, cl_filtered, cl_out>>

expVars == <<exp_compensation_filter, exp_compensated_filename, exp_stimulus,
             exp_calibration_mulitplier, exp_calibrated_filename>>

cmVars == <<cm_pc, cm_args, cm_channel, cm_round, cm_stimulus, cm_band, cm_noise,
            cm_playback, cm_recording_of_noise, cm_compensation_filter,
            cm_compensated_noise, cm_recording_of_compensated_noise,
            cm_final_compensation_filter, cm_compensated_stimulus,
            cm_recording_of_compensated_stimulus, cm_returned>>

fnVars == <<fn, fn_args, fn_result>>

caVars == <<ca_pc, ca_args, ca_channel, ca_playback, ca_time_delay, ca_peak,
            ca_segment, ca_ladder, ca_recording_peaks, ca_polynomial, ca_multiplier,
            ca_calibrated_playback, ca_log, ca_error, ca_returned>>

appVars == <<app_pc, app_name, app_answers, app_selected, app_executed, app_error>>

ssVars == <<ss_pc, ss_channel, ss_calls, ss_op, ss_filename, ss_read, ss_error,
            ss_recording>>

vars == <<tpVars, clVars, files, expVars, cmVars, fnVars, caVars, appVars, ssVars>>

-----------------------------------------------------------------------------
(* Bounds of the model *)

\* longest waveform handed to play_and_record in SpecTransfer
MaxLen == 2
\* longest capture the device returns in SpecTransfer
MaxCapture == 3
\* longest stimulus handed to compensate in SpecClip
MaxStim == 3
\* most passes through the compensation loop in SpecCompensation
MaxRounds == 2

-----------------------------------------------------------------------------
(* Exact rational arithmetic *)

Abs(i) == IF i < 0 THEN -i ELSE i
Min(a, b) == IF a < b THEN a ELSE b
Max(a, b) == IF a > b THEN a ELSE b

RECURSIVE GCD(_, _)
GCD(a, b) == IF b = 0 THEN a ELSE GCD(b, a % b)

\* the rational n/d in lowest terms with a positive denominator (d # 0)
Rat(n, d) ==
    LET g == GCD(Abs(n), Abs(d))
        s == IF d < 0 THEN -1 ELSE 1
    IN  <<(s * n) \div g, (s * d) \div g>>

Zero == <<0, 1>>
One == <<1, 1>>
RInt(i) == <<i, 1>>

\* the number (p + q * sqrt(2)) / d in lowest terms with a positive
\* denominator (d # 0): the rational <<p, d>> when q = 0, the triple
\* <<p, q, d>> otherwise
Surd(p, q, d) ==
    LET g == GCD(GCD(Abs(p), Abs(q)), Abs(d))
        s == IF d < 0 THEN -1 ELSE 1
    IN  IF q = 0 THEN <<(s * p) \div g, (s * d) \div g>>
        ELSE <<(s * p) \div g, (s * q) \div g, (s * d) \div g>>
\* the rational part, the part of sqrt(2) and the denominator of a number
SurdP(x) == x[1]
SurdQ(x) == IF Len(x) = 2 THEN 0 ELSE x[2]
SurdD(x) == x[Len(x)]
IsRat(x) == Len(x) = 2

\* the sign of p/q - [term; 2, 2, ...] for p, q > 0, by the continued
\* fraction of p/q; sqrt(2) = [1; 2, 2, ...], and the order of two continued
\* fractions turns over at every term
RECURSIVE cmp_continued(_, _, _, _)
cmp_continued(p, q, term, flip) ==
    LET a == p \div q
        r == p % q
    IN  IF a # term
        THEN (IF (a > term) = flip THEN -1 ELSE 1)
        ELSE IF r = 0 THEN (IF flip THEN 1 ELSE -1)
        ELSE cmp_continued(q, r, 2, ~flip)

\* the sign of a number: -1, 0 or 1
RSign(x) ==
    LET p == SurdP(x)
        q == SurdQ(x)
    IN  IF q = 0 THEN (IF p > 0 THEN 1 ELSE IF p < 0 THEN -1 ELSE 0)
        ELSE IF p >= 0 /\ q > 0 THEN 1
        ELSE IF p <= 0 /\ q < 0 THEN -1
        ELSE IF p > 0 THEN cmp_continued(p, -q, 1, FALSE)
        ELSE -cmp_continued(-p, q, 1, FALSE)

RNeg(x) == IF IsRat(x) THEN <<-x[1], x[2]>> ELSE <<-x[1], -x[2], x[3]>>

\* sums and products cancel common factors before multiplying, so that
\* intermediate values stay as small as the result allows
RAdd(x, y) ==
    LET g == GCD(SurdD(x), SurdD(y))
        a == SurdD(y) \div g
        b == SurdD(x) \div g
    IN  IF IsRat(x) /\ IsRat(y)
        THEN Rat(x[1] * a + y[1] * b, b * y[2])
        ELSE Surd(SurdP(x) * a + SurdP(y) * b, SurdQ(x) * a + SurdQ(y) * b,
                  b * SurdD(y))
RSub(x, y) == RAdd(x, RNeg(y))
RMul(x, y) ==
    LET g1 == GCD(GCD(Abs(SurdP(x)), Abs(SurdQ(x))), SurdD(y))
        g2 == GCD(GCD(Abs(SurdP(y)), Abs(SurdQ(y))), SurdD(x))
        a  == SurdP(x) \div g1
        b  == SurdQ(x) \div g1
        c  == SurdP(y) \div g2
        d  == SurdQ(y) \div g2
    IN  IF x = Zero \/ y = Zero THEN Zero
        ELSE IF IsRat(x) /\ IsRat(y)
        THEN <<a * c, (x[2] \div g2) * (y[2] \div g1)>>
        ELSE Surd(a * c + 2 * (b * d), a * d + b * c,
                  (SurdD(x) \div g2) * (SurdD(y) \div g1))
\* 1 / y (y # 0): d * (p - q * sqrt(2)) / (p^2 - 2 * q^2)
RInv(y) ==
    LET g  == GCD(Abs(SurdP(y)), Abs(SurdQ(y)))
        p  == SurdP(y) \div g
        q  == SurdQ(y) \div g
        n  == p * p - 2 * (q * q)
        h  == GCD(SurdD(y), g)
        h2 == GCD(SurdD(y) \div h, Abs(n))
        d  == (SurdD(y) \div h) \div h2
    IN  Surd(d * p, -(d * q), (g \div h) * (n \div h2))
RDiv(x, y) ==
    IF IsRat(x) /\ IsRat(y)
    THEN RMul(x, IF y[1] < 0 THEN <<-y[2], -y[1]>> ELSE <<y[2], y[1]>>)
    ELSE RMul(x, RInv(y))
RAbs(x) == IF RSign(x) < 0 THEN RNeg(x) ELSE x
RLt(x, y) ==
    LET g == GCD(SurdD(x), SurdD(y))
    IN  IF IsRat(x) /\ IsRat(y)
        THEN x[1] * (y[2] \div g) < y[1] * (x[2] \div g)
        ELSE RSign(RSub(x, y)) < 0
RLe(x, y) ==
    LET g == GCD(SurdD(x), SurdD(y))
    IN  IF IsRat(x) /\ IsRat(y)
        THEN x[1] * (y[2] \div g) <= y[1] * (x[2] \div g)
        ELSE RSign(RSub(x, y)) <= 0

\* Python's round() of the quotient n/d (n >= 0, d > 0): to the nearest
\* integer, a tie going to the even one
py_round(n, d) ==
    LET q == n \div d
        r == n % d
    IN  IF 2 * r < d THEN q
        ELSE IF 2 * r > d THEN q + 1
        ELSE IF q % 2 = 0 THEN q ELSE q + 1

-----------------------------------------------------------------------------
(* binary64 division, for the one computation whose rounding decides an
   integer result: floor(freq / (fs / fft)).  A natural below 2^55 is the pair
   <<hi, lo>> standing for hi * 2^27 + lo; a positive double is a 53-bit
   mantissa m (2^52 <= m < 2^53) and an exponent e, standing for m * 2^e.
   Operands are integers below 2^26 and no quotient under- or overflows. *)

RECURSIVE Pow2(_)
Pow2(k) == IF k = 0 THEN 1 ELSE 2 * Pow2(k - 1)
\* floor(log2(n)), 0 < n < 2^31
Log2(n) == CHOOSE k \in 0 .. 30 : Pow2(k) <= n /\ (k = 30 \/ n < Pow2(k + 1))

W27 == 134217728
WZero == <<0, 0>>
WNorm(hi, lo) == <<hi + lo \div W27, lo % W27>>
WDouble(x) == WNorm(2 * x[1], 2 * x[2])
WDoublePlus(x, b) == WNorm(2 * x[1], 2 * x[2] + b)
WHalve(x) == <<x[1] \div 2, (x[1] % 2) * (W27 \div 2) + x[2] \div 2>>
WGe(x, y) == x[1] > y[1] \/ (x[1] = y[1] /\ x[2] >= y[2])
WSub(x, y) ==
    IF x[2] >= y[2] THEN <<x[1] - y[1], x[2] - y[2]>>
    ELSE <<x[1] - y[1] - 1, x[2] + W27 - y[2]>>

\* float(n), n >= 0: exact
float_of_int(n) ==
    IF n = 0 THEN [m |-> WZero, e |-> 0]
    ELSE LET k == 52 - Log2(n)
         IN  [m |-> IF k >= 27 THEN <<n * Pow2(k - 27), 0>>
                    ELSE <<n \div Pow2(27 - k), (n % Pow2(27 - k)) * Pow2(k)>>,
              e |-> -k]

\* one step of binary long division: the quotient bits so far qr[1], the
\* remainder qr[2], the divisor d
div_step(qr, d) ==
    IF WGe(WDouble(qr[2]), d)
    THEN <<WDoublePlus(qr[1], 1), WSub(WDouble(qr[2]), d)>>
    ELSE <<WDouble(qr[1]), WDouble(qr[2])>>

\* n steps of it; nothing is left to do once quotient and remainder are zero
RECURSIVE div_steps(_, _, _)
div_steps(qr, d, n) ==
    IF n = 0 \/ qr = <<WZero, WZero>> THEN qr
    ELSE div_steps(div_step(qr, d), d, n - 1)

\* x / y in binary64 (y # 0): the quotient of the mantissas to 54 bits, then
\* rounded to 53 bits, to nearest and a tie to even
float_div(x, y) ==
    IF x.m = WZero THEN x
    ELSE LET whole == WGe(x.m, y.m)
             qr    == IF whole THEN div_steps(<<<<0, 1>>, WSub(x.m, y.m)>>, y.m, 53)
                      ELSE div_steps(<<WZero, x.m>>, y.m, 54)
             e     == x.e - y.e - (IF whole THEN 53 ELSE 54)
             kept  == WHalve(qr[1])
             up    == /\ qr[1][2] % 2 = 1
                      /\ (qr[2] # WZero \/ kept[2] % 2 = 1)
             m     == IF up THEN WNorm(kept[1], kept[2] + 1) ELSE kept
         IN  IF m = <<W27 \div 2, 0>>
             THEN [m |-> <<W27 \div 4, 0>>, e |-> e + 2]
             ELSE [m |-> m, e |-> e + 1]

\* int(np.floor(x)), 0 <= x < 2^31
float_floor(x) ==
    IF x.m = WZero \/ -x.e > 52 THEN 0
    ELSE IF -x.e >= 27 THEN x.m[1] \div Pow2(-x.e - 27)
    ELSE x.m[1] * Pow2(27 + x.e) + x.m[2] \div Pow2(-x.e)

-----------------------------------------------------------------------------
(* numpy arrays *)

EmptyNz == [i \in {} |-> Zero]

\* the sample at index i (0 <= i < w.len)
At(w, i) == IF i \in DOMAIN w.nz THEN w.nz[i] ELSE Zero

\* every array of at most maxlen samples drawn from vals and 0
Waveforms(maxlen, vals) ==
    UNION { { [len |-> n, nz |-> f] :
                f \in UNION { [D -> vals \ {Zero}] : D \in SUBSET (0 .. n - 1) } } :
            n \in 0 .. maxlen }

\* np.zeros(n), n >= 0
np_zeros(n) == [len |-> n, nz |-> EmptyNz]

\* np.append(a, b) / np.concatenate([a, b])
np_append(a, b) ==
    [len |-> a.len + b.len,
     nz  |-> [i \in DOMAIN a.nz \cup { j + a.len : j \in DOMAIN b.nz } |->
                IF i < a.len THEN a.nz[i] ELSE b.nz[i - a.len]]]

\* Python's normalisation of a slice bound against a length: a negative
\* bound counts from the end, and the result is clamped to 0 .. n
slice_bound(i, n) == IF i < 0 THEN Max(i + n, 0) ELSE Min(i, n)

\* w[start:stop]
py_slice(w, start, stop) ==
    LET lo == slice_bound(start, w.len)
        hi == slice_bound(stop, w.len)
        n  == Max(hi - lo, 0)
    IN  [len |-> n,
         nz  |-> [i \in { j - lo : j \in { k \in DOMAIN w.nz : k >= lo /\ k < hi } } |->
                    w.nz[i + lo]]]

\* np.multiply(w, r)
np_multiply(w, r) ==
    IF r = Zero THEN np_zeros(w.len)
    ELSE [len |-> w.len, nz |-> [i \in DOMAIN w.nz |-> RMul(w.nz[i], r)]]

\* abs(w)
np_abs(w) == [len |-> w.len, nz |-> [i \in DOMAIN w.nz |-> RAbs(w.nz[i])]]

\* the set of sample values of w
Samples(w) ==
    { w.nz[i] : i \in DOMAIN w.nz } \cup
    (IF Cardinality(DOMAIN w.nz) < w.len THEN {Zero} ELSE {})

\* max(w), the largest (signed) sample of a nonempty array
py_max(w) == CHOOSE m \in Samples(w) : \A x \in Samples(w) : RLe(x, m)

\* the first index holding the sample v (v \in Samples(w))
first_index(w, v) ==
    IF v = Zero
    THEN CHOOSE i \in 0 .. Cardinality(DOMAIN w.nz) :
            /\ i \notin DOMAIN w.nz
            /\ \A j \in 0 .. i - 1 : j \in DOMAIN w.nz
    ELSE CHOOSE i \in DOMAIN w.nz :
            /\ w.nz[i] = v
            /\ \A j \in DOMAIN w.nz : w.nz[j] = v => i <= j

\* np.argmax(w): the first index of the largest (signed) sample
np_argmax(w) == first_index(w, py_max(w))

\* the array of n samples whose sample i is f[i] for i in DOMAIN f
from_fn(n, f) ==
    [len |-> n, nz |-> [i \in { j \in DOMAIN f : f[j] # Zero } |-> f[i]]]

-----------------------------------------------------------------------------
(* Outcomes of calls, and the states in which a component has not run *)

\* the outcome of a call: a value, or the exception that left it
Ok(v) == [status |-> "ok", value |-> v]
Raised(e) == [status |-> e, value |-> np_zeros(0)]

TpIdle ==
    /\ tp_pc = "idle"
    /\ tp_module = "none"
    /\ tp_playback = np_zeros(0)
    /\ tp_fs = 0
    /\ tp_padding = FALSE
    /\ tp_emitted = np_zeros(0)
    /\ tp_captured = np_zeros(0)
    /\ tp_result = Raised("none")

ClIdle ==
    /\ cl_pc = "idle"
    /\ cl_stimulus = np_zeros(0)
    /\ cl_filter = np_zeros(0)
    /\ cl_filtered = np_zeros(0)
    /\ cl_out = np_zeros(0)

\* Python's None for a filter and for a file name
NoneFilter ==
    [reference |-> np_zeros(0), measured |-> np_zeros(0), numtaps |-> 0,
     taps |-> np_zeros(0)]
NoneName == <<>>
\* Experiment.stimulus before set_stimulus, Experiment.calibration_mulitplier
\* before a calibration
NoneStimulus ==
    [filename |-> NoneName, fs |-> 0, fft |-> 0, low_freq |-> 0, high_freq |-> 0,
     target_amp |-> <<0, 1>>]
NoneMultiplier == <<>>

\* Experiment.__init__
ExpInit ==
    /\ exp_compensation_filter = NoneFilter
    /\ exp_compensated_filename = NoneName
    /\ exp_stimulus = NoneStimulus
    /\ exp_calibration_mulitplier = NoneMultiplier
    /\ exp_calibrated_filename = NoneName

CmIdle ==
    /\ cm_pc = "idle"
    /\ cm_args = [fs |-> 0, fft |-> 0, low_freq |-> 0, high_freq |-> 0,
                  stimulus_filename |-> NoneName]
    /\ cm_channel = [gain |-> One, delay |-> 0]
    /\ cm_round = 0
    /\ cm_stimulus = np_zeros(0)
    /\ cm_band = [lo |-> 0, hi |-> 0]
    /\ cm_noise = np_zeros(0)
    /\ cm_playback = np_zeros(0)
    /\ cm_recording_of_noise = np_zeros(0)
    /\ cm_compensation_filter = NoneFilter
    /\ cm_compensated_noise = np_zeros(0)
    /\ cm_recording_of_compensated_noise = np_zeros(0)
    /\ cm_final_compensation_filter = NoneFilter
    /\ cm_compensated_stimulus = np_zeros(0)
    /\ cm_recording_of_compensated_stimulus = np_zeros(0)
    /\ cm_returned = <<NoneFilter, NoneName>>

FnIdle ==
    /\ fn = "none"
    /\ fn_args = <<>>
    /\ fn_result = <<>>

CaIdle ==
    /\ ca_pc = "idle"
    /\ ca_args = <<>>
    /\ ca_channel = [gain |-> One, delay |-> 0]
    /\ ca_playback = np_zeros(0)
    /\ ca_time_delay = 0
    /\ ca_peak = <<0, Zero>>
    /\ ca_segment = np_zeros(0)
    /\ ca_ladder = <<>>
    /\ ca_recording_peaks = <<>>
    /\ ca_polynomial = <<Zero, Zero>>
    /\ ca_multiplier = Zero
    /\ ca_calibrated_playback = np_zeros(0)
    /\ ca_log = <<>>
    /\ ca_error = "none"
    /\ ca_returned = <<Zero, NoneName>>

SsIdle ==
    /\ ss_pc = "idle"
    /\ ss_channel = [gain |-> One, delay |-> 0]
    /\ ss_calls = 0
    /\ ss_op = "none"
    /\ ss_filename = NoneName
    /\ ss_read = NoneName
    /\ ss_error = "none"
    /\ ss_recording = np_zeros(0)

AppIdle ==
    /\ app_pc = "idle"
    /\ app_name = ""
    /\ app_answers = <<>>
    /\ app_selected = [compensate |-> FALSE, calibrate |-> FALSE, playback |-> FALSE]
    /\ app_executed = <<>>
    /\ app_error = "none"

-----------------------------------------------------------------------------
(* Transfer primitive: play_and_record and its length reconciliation *)

\* a faulty equalize_length, which trims the surplus from the end: C1 must
\* tell it from the code's
equalize_length_trim_tail(playback, recording) ==
    IF recording.len > playback.len
    THEN py_slice(recording, 0, playback.len)
    ELSE IF recording.len < playback.len
    THEN [len |-> playback.len, nz |-> recording.nz]
    ELSE recording

\* calibration.equalize_length / compensation.equalize_length (same text)
equalize_length(playback, recording) ==
    IF recording.len > playback.len
    THEN LET difference == recording.len - playback.len
         IN  py_slice(recording, difference, recording.len)
    ELSE IF recording.len < playback.len
    THEN \* adjusted_recording = np.zeros(len(playback)); [0:len(recording)] = recording
         [len |-> playback.len, nz |-> recording.nz]
    ELSE recording

\* the playback lengthened by two paddings of round(fs/6) zeros
lengthen(playback, fs) ==
    LET padding == np_zeros(py_round(fs, 6))
    IN  np_append(np_append(playback, padding), padding)

\* calibration.play_and_record / compensation.play_and_record, given what
\* sd.playrec captured
engine_play_and_record(playback, fs, captured) ==
    Ok(equalize_length(playback, captured))

\* playback.play_and_record, given what sd.playrec captured
playback_play_and_record(playback, fs, with_padding, captured) ==
    IF with_padding
    THEN LET diff_samps == captured.len - playback.len
         IN  IF diff_samps > 0
             THEN Ok(py_slice(captured, diff_samps, captured.len))
             ELSE IF diff_samps < 0
             \* np.zeros(diff_samps) with diff_samps < 0 raises ValueError
             THEN Raised("ValueError")
             ELSE Ok(captured)
    ELSE Ok(captured)

\* sample values of SpecTransfer
TpVals == { RInt(-1), RInt(1) }
\* sampling rates of SpecTransfer: round(fs/6) is 0, 1, 2
TpFs == { 3, 4, 9 }

\* a call of calibration.play_and_record or compensation.play_and_record;
\* the device returns any capture
EnginePlayAndRecord ==
    /\ tp_pc = "idle"
    /\ \E playback \in Waveforms(MaxLen, TpVals), fs \in TpFs,
          captured \in Waveforms(MaxCapture, TpVals) :
        /\ tp_module' = "engine"
        /\ tp_playback' = playback
        /\ tp_fs' = fs
        /\ tp_padding' = TRUE
        /\ tp_emitted' = lengthen(playback, fs)
        /\ tp_captured' = captured
        /\ tp_result' = engine_play_and_record(playback, fs, captured)
    /\ tp_pc' = "returned"

\* a call of playback.play_and_record
PlaybackPlayAndRecord ==
    /\ tp_pc = "idle"
    /\ \E playback \in Waveforms(MaxLen, TpVals), fs \in TpFs,
          with_padding \in BOOLEAN,
          captured \in Waveforms(MaxCapture, TpVals) :
        /\ tp_module' = "playback"
        /\ tp_playback' = playback
        /\ tp_fs' = fs
        /\ tp_padding' = with_padding
        /\ tp_emitted' = IF with_padding THEN lengthen(playback, fs) ELSE playback
        /\ tp_captured' = captured
        /\ tp_result' = playback_play_and_record(playback, fs, with_padding, captured)
    /\ tp_pc' = "returned"

InitTransfer == TpIdle /\ ClIdle /\ files = {} /\ ExpInit /\ CmIdle /\ FnIdle /\ CaIdle /\ AppIdle /\ SsIdle
NextTransfer ==
    \/ EnginePlayAndRecord /\ UNCHANGED <<clVars, files, expVars, cmVars, fnVars, caVars, appVars, ssVars>>
    \/ PlaybackPlayAndRecord /\ UNCHANGED <<clVars, files, expVars, cmVars, fnVars, caVars, appVars, ssVars>>
SpecTransfer == InitTransfer /\ [][NextTransfer]_vars

\* C1: equalize_length returns exactly len(playback) samples: the last N
\* samples of a longer recording, a shorter recording followed by zeros, an
\* equally long recording unchanged.
C1_EqualizeLength ==
    (tp_pc = "returned" /\ tp_module = "engine") =>
        LET N == tp_playback.len
            M == tp_captured.len
            r == tp_result.value
        IN  /\ tp_result.status = "ok"
            /\ r.len = N
            /\ M > N => \A i \in 0 .. N - 1 : At(r, i) = At(tp_captured, i + (M - N))
            /\ M < N => \A i \in 0 .. N - 1 :
                          At(r, i) = IF i < M THEN At(tp_captured, i) ELSE Zero
            /\ M = N => r = tp_captured

\* a longer capture whose dropped head and kept tail differ, and a shorter one
C1_Witness ==
    /\ tp_pc = "returned" /\ tp_module = "engine"
    /\ tp_captured.len = tp_playback.len + 1
    /\ tp_playback.len = 2
    /\ At(tp_captured, 0) # At(tp_captured, 2)
    /\ tp_result.value.len = 2

\* C2: playback.play_and_record with with_padding=True returns normally with
\* exactly len(playback) samples, a short capture right-padded with zeros.
C2_PaddedPlaybackLength ==
    (tp_pc = "returned" /\ tp_module = "playback" /\ tp_padding) =>
        LET N == tp_playback.len
            M == tp_captured.len
            r == tp_result.value
        IN  /\ tp_result.status = "ok"
            /\ r.len = N
            /\ M < N => \A i \in 0 .. N - 1 :
                          At(r, i) = IF i < M THEN At(tp_captured, i) ELSE Zero

-----------------------------------------------------------------------------
(* compensation.compensate: causal FIR filtering and the clip guard *)

\* sum over the taps K of b[k] * x[n - k]
RECURSIVE lfilter_sum(_, _, _, _)
lfilter_sum(b, x, n, K) ==
    IF K = {} THEN Zero
    ELSE LET k == CHOOSE j \in K : TRUE
         IN  RAdd(RMul(b.nz[k], At(x, n - k)), lfilter_sum(b, x, n, K \ {k}))

\* signal.lfilter(b, 1, x): y[n] = sum over k <= n of b[k] * x[n - k],
\* zero initial state, as many samples as x
signal_lfilter(b, x) ==
    LET idx == { n \in { i + k : i \in DOMAIN x.nz, k \in DOMAIN b.nz } : n < x.len }
        y   == [n \in idx |-> lfilter_sum(b, x, n, { k \in DOMAIN b.nz : k <= n })]
    IN  from_fn(x.len, y)

\* the clip guard of compensate, lines 143-145
clip_guard(compensated_stimulus) ==
    IF RLt(One, RAbs(py_max(compensated_stimulus)))
    THEN np_multiply(compensated_stimulus,
                     RDiv(One, RMul(Rat(11, 10), RAbs(py_max(compensated_stimulus)))))
    ELSE compensated_stimulus

\* compensate(stimulus, compensation_filter), stimulus nonempty
compensate(stimulus, compensation_filter) ==
    clip_guard(signal_lfilter(compensation_filter, stimulus))

\* peak magnitude max(|x|) of a nonempty array
Peak(w) == py_max(np_abs(w))

\* an array from a tuple of samples
Arr(s) == from_fn(Len(s), [i \in 0 .. Len(s) - 1 |-> s[i + 1]])

\* sample values and filters of SpecClip
ClVals == { RInt(-3), Rat(-1, 2), Rat(1, 2), RInt(2) }
ClFilters == { Arr(<<One>>), Arr(<<RInt(-1)>>), Arr(<<Rat(1, 2), Rat(1, 2), Zero>>) }

\* a call of compensate
Compensate ==
    /\ cl_pc = "idle"
    /\ \E stimulus \in Waveforms(MaxStim, ClVals), f \in ClFilters :
        /\ stimulus.len > 0
        /\ cl_stimulus' = stimulus
        /\ cl_filter' = f
        /\ cl_filtered' = signal_lfilter(f, stimulus)
        /\ cl_out' = compensate(stimulus, f)
    /\ cl_pc' = "done"

InitClip == TpIdle /\ ClIdle /\ files = {} /\ ExpInit /\ CmIdle /\ FnIdle /\ CaIdle /\ AppIdle /\ SsIdle
NextClip == Compensate /\ UNCHANGED <<tpVars, files, expVars, cmVars, fnVars, caVars, appVars, ssVars>>
SpecClip == InitClip /\ [][NextClip]_vars

\* C4: a filtered waveform whose peak magnitude exceeds 1 leaves compensate
\* with a peak magnitude of at most 1/1.1, also when its largest-magnitude
\* sample is negative.
C4_ClipGuardPeak ==
    (cl_pc = "done" /\ RLt(One, Peak(cl_filtered))) =>
        RLe(Peak(cl_out), Rat(10, 11))

-----------------------------------------------------------------------------
(* compensation.main, called by Experiment.generate_compensation_filter *)

\* storage: a file is the pair of its name and the samples sf.read returns
\* for it.  A stimulus file comes from the operator and may be of any
\* subtype; sf.write(name, data, fs) with a ".wav" name and no subtype writes
\* PCM_16, through libsndfile's conversion with clipping switched on.

\* <<floor(f * 2^n), the fraction left>> for 0 <= f < 1, one bit at a time
RECURSIVE scale_bits(_, _, _)
scale_bits(f, n, acc) ==
    IF n = 0 THEN <<acc, f>>
    ELSE LET doubled == RMul(RInt(2), f)
             bit     == IF RLe(One, doubled) THEN 1 ELSE 0
         IN  scale_bits(RSub(doubled, RInt(bit)), n - 1, 2 * acc + bit)

\* g * 2^n <= 1, for g > 0
RECURSIVE at_most_half_power(_, _)
at_most_half_power(g, n) ==
    IF RLt(One, g) THEN FALSE
    ELSE IF n = 0 THEN TRUE
    ELSE at_most_half_power(RMul(RInt(2), g), n - 1)

\* the 16-bit code of one sample: x * 2^31 is clipped to
\* [-2^31, 2^31 - 1], rounded to the nearest integer and shifted right by
\* 16 bits, which is floor(x * 2^15 + 2^-17) between the two clips
d2s_clip(x) ==
    IF RLe(One, x) THEN 32767
    ELSE IF RLe(x, RInt(-1)) THEN -32768
    ELSE LET whole == IF RSign(x) < 0 THEN -1 ELSE 0
             bits  == scale_bits(RSub(x, RInt(whole)), 15, 0)
             carry == IF at_most_half_power(RSub(One, bits[2]), 17) THEN 1 ELSE 0
         IN  Min(32767, whole * 32768 + bits[1] + carry)

\* the samples sf.read returns for a PCM_16 file written from data: every
\* code divided by 2^15
pcm_16(data) ==
    from_fn(data.len, [i \in DOMAIN data.nz |-> Rat(d2s_clip(data.nz[i]), 32768)])

\* whether storage holds a file of that name
file_exists(name) == \E f \in files : f[1] = name

sf_read(fileset, name) == (CHOOSE f \in fileset : f[1] = name)[2]
sf_write(fileset, name, data) ==
    { f \in fileset : f[1] # name } \cup { <<name, pcm_16(data)>> }

\* filename.replace(".wav", "") followed by f'{prefix}{edited_filename}.wav';
\* a file name is the tuple of its parts
output_filename(prefix, filename) ==
    <<prefix>> \o SelectSeq(filename, LAMBDA part : part # ".wav") \o <<".wav">>

\* frequency2samples: int(np.floor(freq / (fs / fft))), the two divisions in
\* binary64 (freq >= 0, fs > 0, fft > 0)
frequency2samples(freq, fs, fft) ==
    float_floor(float_div(float_of_int(freq),
                          float_div(float_of_int(fs), float_of_int(fft))))

\* the arguments x in [-1/2, 1/2] at which sin(pi * x) is rational, and
\* np.sin(np.pi * x) there.  At the other arguments the sine is irrational
\* and the model has no value for it: the runs draw their inputs so that no
\* nonzero sample meets such a point of a taper.
sine_points == { Rat(-1, 2), Rat(-1, 6), Zero, Rat(1, 6), Rat(1, 2) }
sin_pi(x) ==
    CASE x = Rat(-1, 2) -> RInt(-1)
      [] x = Rat(-1, 6) -> Rat(-1, 2)
      [] x = Zero       -> Zero
      [] x = Rat(1, 6)  -> Rat(1, 2)
      [] x = Rat(1, 2)  -> One

\* np.cos(np.pi * t) for 0 <= t <= 1, which is sin(pi * (1/2 - t))
cos_pi(t) == sin_pi(RSub(Rat(1, 2), t))

\* ramp[j] / pi for ramp = np.linspace(0, np.pi, r)
ramp_at(r, j) == IF r = 1 THEN Zero ELSE Rat(j, r - 1)

\* sample j of the opening taper 0.5*np.sin(ramp - np.pi/2) + 0.5
taper_up(r, j) ==
    RAdd(RMul(Rat(1, 2), sin_pi(RSub(ramp_at(r, j), Rat(1, 2)))), Rat(1, 2))

\* sample j of the closing taper 0.5*np.cos(ramp) + 0.5
taper_down(r, j) ==
    RAdd(RMul(Rat(1, 2), cos_pi(ramp_at(r, j))), Rat(1, 2))

\* sample i of the window np.ones(n) whose first r samples were set to the
\* opening taper and whose last r samples were then set to the closing
\* taper (n >= r)
window_at(n, r, i) ==
    IF i >= n - r THEN taper_down(r, i - (n - r))
    ELSE IF i < r THEN taper_up(r, i)
    ELSE One

\* whether sample i of that window is rational
window_rational(n, r, i) ==
    IF i >= n - r THEN RSub(Rat(1, 2), ramp_at(r, i - (n - r))) \in sine_points
    ELSE IF i < r THEN RSub(ramp_at(r, i), Rat(1, 2)) \in sine_points
    ELSE TRUE

\* w * window for the window of len(w) samples with tapers of r samples
apply_window(w, r) ==
    from_fn(w.len, [i \in DOMAIN w.nz |-> RMul(w.nz[i], window_at(w.len, r, i))])

\* generate_noise(fs), given the draw white_noise = np.random.rand(2 * fs) - 0.5
generate_noise(fs, white_noise) ==
    LET windowed == apply_window(white_noise, py_round(fs, 5))
        padding  == np_zeros(py_round(fs, 6))
        noise    == np_append(np_append(np_append(np_append(
                        padding, windowed), padding), padding), padding)
    IN  np_multiply(noise, Rat(1, 2))

\* sd.playrec on the hardware chain ch: as many samples as were emitted, each
\* the emitted sample ch.delay earlier times ch.gain
sd_playrec(emitted, ch) ==
    [len |-> emitted.len,
     nz  |-> [i \in { j + ch.delay : j \in { k \in DOMAIN emitted.nz :
                                              k + ch.delay < emitted.len } } |->
                RMul(ch.gain, emitted.nz[i - ch.delay])]]

\* play_and_record(playback, fs, ...) on the hardware chain ch
play_and_record(playback, fs, ch) ==
    engine_play_and_record(playback, fs, sd_playrec(lengthen(playback, fs), ch)).value

\* signal.welch(sound, fs, window='hamming', nperseg=fft, ...) takes segments
\* of nperseg = fft samples, or of len(sound) samples when the sound is
\* shorter, which overlap by nperseg // 2 samples, and returns
\* nperseg // 2 + 1 bins
welch_nperseg(sound, fft) == Min(fft, sound.len)
welch_bins(sound, fft) == welch_nperseg(sound, fft) \div 2 + 1
\* the first samples of the segments
welch_starts(sound, fft) ==
    LET nperseg  == welch_nperseg(sound, fft)
        noverlap == nperseg \div 2
        step     == nperseg - noverlap
    IN  { j * step : j \in 0 .. (sound.len - noverlap) \div step - 1 }

\* get_window('hamming', nperseg), the periodic Hamming window
\* 0.54 - 0.46 * cos(2 * pi * n / nperseg), of one or two samples.  The
\* model has no spectrum of longer segments, whose bins are not in
\* Q(sqrt(2)): the runs draw their inputs so that nperseg <= 2.
hamming_window(nperseg) ==
    CASE nperseg = 1 -> <<One>>
      [] nperseg = 2 -> <<Rat(2, 25), One>>
window_sum(nperseg) ==
    CASE nperseg = 1 -> One
      [] nperseg = 2 -> Rat(27, 25)

\* bin k of the discrete Fourier transform of the windowed segment that
\* starts at sample start: x0*w0 + x1*w1 for k = 0, x0*w0 - x1*w1 for k = 1
segment_bin(sound, fft, start, k) ==
    LET w == hamming_window(welch_nperseg(sound, fft))
    IN  IF welch_nperseg(sound, fft) = 1 THEN At(sound, start)
        ELSE IF k = 0
        THEN RAdd(RMul(At(sound, start), w[1]), RMul(At(sound, start + 1), w[2]))
        ELSE RSub(RMul(At(sound, start), w[1]), RMul(At(sound, start + 1), w[2]))

\* whether bin k of get_amplitude_spectrum(sound, fs, fft, lo, hi) is zero.
\* With scaling='spectrum' the bin is the mean over the segments of
\* |X[k]|^2 / sum(window)^2, which is zero when X[k] is zero in every segment
spectrum_bin_is_zero(sound, fft, k) ==
    \A start \in welch_starts(sound, fft) : segment_bin(sound, fft, start, k) = Zero

\* np.power(amplitudes, 0.5) for the amplitudes of get_amplitude_spectrum
\* (lines 110-114, 154-157) of a sound of one segment: bin k of the Welch
\* spectrum is (X[k] / sum(window))^2 (no bin of a segment of two samples is
\* doubled) and its root |X[k]| / sum(window).  The mean over several
\* segments has no root in Q(sqrt(2)) and the model no value for it.
amplitude_spectrum_root(sound, fft) ==
    CASE Cardinality(welch_starts(sound, fft)) = 1 ->
        from_fn(welch_bins(sound, fft),
                [k \in 0 .. welch_bins(sound, fft) - 1 |->
                    RDiv(RAbs(segment_bin(sound, fft, 0, k)),
                         window_sum(welch_nperseg(sound, fft)))])

\* len(amp[lo:hi]) for the spectrum amp of the sound
band_bins(sound, fft, lo, hi) ==
    LET n == welch_bins(sound, fft)
    IN  Max(slice_bound(hi, n) - slice_bound(lo, n), 0)

\* whether min(amp[lo:hi]) is zero for the (nonnegative) spectrum amp of the
\* sound
band_minimum_is_zero(sound, fft, lo, hi) ==
    LET n == welch_bins(sound, fft)
    IN  \E k \in slice_bound(lo, n) .. slice_bound(hi, n) - 1 :
            spectrum_bin_is_zero(sound, fft, k)

\* plot_amplitude_spectra(stim1, ..., stim2, ..., fs, fft, lo, hi).  Lines
\* 160-165: the builtin min of an empty slice raises ValueError.  Line 173:
\* plt.ylim raises ValueError when a limit is not finite, and
\* pxx2decibels(plt_min) = 20 * log10(0) is -inf when the smaller of the two
\* band minima is zero
plot_amplitude_spectra(stim1, stim2, fft, lo, hi) ==
    IF band_bins(stim2, fft, lo, hi) = 0 \/ band_bins(stim1, fft, lo, hi) = 0
    THEN "ValueError"
    ELSE IF band_minimum_is_zero(stim2, fft, lo, hi)
            \/ band_minimum_is_zero(stim1, fft, lo, hi)
    THEN "ValueError"
    ELSE "ok"

\* w with w[start:stop] = 0
set_slice_zero(w, start, stop) ==
    LET lo == slice_bound(start, w.len)
        hi == slice_bound(stop, w.len)
    IN  [len |-> w.len,
         nz  |-> [i \in { k \in DOMAIN w.nz : ~(k >= lo /\ k < hi) } |-> w.nz[i]]]

\* np.divide(a, b), b without a zero sample
np_divide(a, b) ==
    [len |-> a.len, nz |-> [i \in DOMAIN a.nz |-> RDiv(a.nz[i], At(b, i))]]

\* a faulty zeroing, which leaves bin hi + 10 alone: C11 must tell it from
\* the code's
zero_out_of_range_late(amp_ratio, lo, hi) ==
    set_slice_zero(set_slice_zero(amp_ratio, 0, lo), hi + 11, amp_ratio.len)

\* lines 119-120: amp_ratio[0:lo] = 0; amp_ratio[hi+10: len(amp_ratio)] = 0
zero_out_of_range(amp_ratio, lo, hi) ==
    set_slice_zero(set_slice_zero(amp_ratio, 0, lo), hi + 10, amp_ratio.len)

\* lines 116-120: the ratio of the amplitude spectra with the bins outside
\* the band zeroed (recording_amp without a zero bin)
band_amp_ratio(playback_amp, recording_amp, lo, hi) ==
    zero_out_of_range(np_divide(playback_amp, recording_amp), lo, hi)

\* whether every bin of gain holds the same value
flat_gain(gain) == \A i \in 0 .. gain.len - 1 : At(gain, i) = At(gain, 0)

\* np.cos(np.pi * m / 4)
cos_quarter_pi(m) ==
    CASE m % 8 = 0 -> One
      [] m % 8 \in {1, 7} -> Surd(0, 1, 2)
      [] m % 8 \in {2, 6} -> Zero
      [] m % 8 \in {3, 5} -> Surd(0, -1, 2)
      [] m % 8 = 4 -> RInt(-1)

\* get_window('hamming', 3, fftbins=False), the symmetric Hamming window
hamming_taps == <<Rat(2, 25), One, Rat(2, 25)>>

\* np.interp(x, freq, gain) at x = k * nyq / 4 for the two points
\* freq = [0, nyq] of a gain of two bins
interpolated_gain(gain, k) ==
    RAdd(At(gain, 0), RMul(Rat(k, 4), RSub(At(gain, 1), At(gain, 0))))

\* sample n of irfft(fx * shift) for the nfreqs = 1 + 2^ceil(log2(3)) = 5
\* points fx[k] = interpolated_gain(gain, k) and the linear phase
\* shift[k] = exp(-(3 - 1)/2 * 1j * pi * k / 4): the inverse transform of 5
\* bins has 8 samples,
\*   (fx[0] + 2 * sum over k = 1..3 of fx[k] * cos(pi * k * (n - 1) / 4)
\*          + fx[4] * cos(pi * (n - 1))) / 8
irfft_shifted(gain, n) ==
    LET term(k) == RMul(interpolated_gain(gain, k), cos_quarter_pi(k * (n + 7)))
    IN  RMul(Rat(1, 8),
             RAdd(RAdd(term(0), term(4)),
                  RMul(RInt(2), RAdd(RAdd(term(1), term(2)), term(3)))))

\* signal.firwin2(numtaps, freq, gain, fs=fs) for an odd numtaps and
\* freq = np.linspace(0, fs/2, len(gain)), len(gain) >= 2.  For three taps
\* and a gain of two bins: the first three samples of irfft_shifted times the
\* Hamming window.  For a gain that is the same c in every bin, whatever the
\* number of taps: the inverse transform of c times a linear phase, which is
\* c at the middle tap and 0 elsewhere.  The taps of any other design are
\* not in Q(sqrt(2)) and the model has no value for them.
firwin2(numtaps, gain) ==
    CASE numtaps = 3 /\ gain.len = 2 ->
            from_fn(3, [n \in 0 .. 2 |-> RMul(irfft_shifted(gain, n), hamming_taps[n + 1])])
      [] ~(numtaps = 3 /\ gain.len = 2) /\ flat_gain(gain) ->
            from_fn(numtaps, [n \in {(numtaps - 1) \div 2} |-> At(gain, 0)])

\* whether the model has the taps of get_compensation_filter on these
\* arguments
design_in_model(playback, recording, fft, lo, hi) ==
    /\ welch_nperseg(playback, fft) = 2 /\ playback.len = 2
    /\ welch_nperseg(recording, fft) = 2 /\ recording.len = 2
    /\ \A k \in 0 .. 1 : ~spectrum_bin_is_zero(recording, fft, k)
    /\ \/ fft \in {2, 3}
       \/ flat_gain(band_amp_ratio(amplitude_spectrum_root(playback, fft),
                                   amplitude_spectrum_root(recording, fft), lo, hi))

\* a faulty filter design, which takes fft for the number of taps whatever
\* the parity of fft: C12 must tell it from the code's
get_compensation_filter_fft_taps(playback, recording, fs, fft, lo, hi) ==
    LET amp_ratio == band_amp_ratio(amplitude_spectrum_root(playback, fft),
                                    amplitude_spectrum_root(recording, fft), lo, hi)
    IN  [reference |-> playback,
         measured  |-> recording,
         numtaps   |-> fft,
         taps      |-> firwin2(IF fft % 2 = 0 THEN fft + 1 ELSE fft, amp_ratio)]

\* get_compensation_filter(playback, recording, fs, fft, lo, hi): the taps
\* signal.firwin2 returns for the ratio of the two amplitude spectra, kept
\* with the pair of waveforms whose spectra form the ratio (reference over
\* measured) and the number of taps asked of firwin2.  fs scales freq_vector
\* and the Nyquist frequency alike and leaves the taps alone.
get_compensation_filter(playback, recording, fs, fft, lo, hi) ==
    LET numtaps   == IF fft % 2 = 0 THEN fft + 1 ELSE fft
        amp_ratio == band_amp_ratio(amplitude_spectrum_root(playback, fft),
                                    amplitude_spectrum_root(recording, fft), lo, hi)
    IN  [reference |-> playback,
         measured  |-> recording,
         numtaps   |-> numtaps,
         taps      |-> firwin2(numtaps, amp_ratio)]

\* a faulty filter of one pass, with the current probe as reference: C5 as
\* amended must tell it from the code's
round_filter_of_probe(noise, playback, recording_of_noise, args, band) ==
    get_compensation_filter(playback, recording_of_noise, args.fs, args.fft,
                            band.lo, band.hi)

\* line 228: the filter of one pass of the loop
round_filter(noise, playback, recording_of_noise, args, band) ==
    get_compensation_filter(noise, recording_of_noise, args.fs, args.fft,
                            band.lo, band.hi)

\* the runs of SpecCompensation
StimulusFile == <<"stimulus", ".wav">>
\* the stimulus files: two stimuli and a silent one
CmStimuli ==
    { Arr(<<Rat(1, 2), RInt(-1), Zero>>), Arr(<<RInt(-1), Rat(1, 4)>>), np_zeros(2) }
\* the arguments of main: a band of two bins, and a band of no bin
\* (lo = hi = 0).  At fs = 1 the noise has two samples, one Welch segment.
CmArgs ==
    { [fs |-> 1, fft |-> 2, low_freq |-> 0, high_freq |-> 1,
       stimulus_filename |-> StimulusFile],
      [fs |-> 1, fft |-> 2, low_freq |-> 0, high_freq |-> 0,
       stimulus_filename |-> StimulusFile] }
CmChannels == { [gain |-> Rat(1, 2), delay |-> 0], [gain |-> RInt(-2), delay |-> 1] }
\* draws of np.random.rand(2 * fs) - 0.5, in hundredths so that the
\* numbers of a run stay small
CmWhite(fs) ==
    { from_fn(2 * fs, [i \in 0 .. 2 * fs - 1 |->
                         <<Rat(-1, 2), Rat(2, 25)>>[(i % 2) + 1]]),
      from_fn(2 * fs, [i \in 0 .. 2 * fs - 1 |->
                         <<Rat(1, 4), Rat(-1, 25)>>[(i % 2) + 1]]) }
Answers == { "y", "Y", "n", "" }

\* lines 213-222 on the arguments args, the chain ch and the draw white_noise
\* of np.random.rand: read the stimulus, convert the band, generate the noise
main_opening(args, ch, white_noise) ==
    /\ cm_args' = args
    /\ cm_channel' = ch
    /\ cm_stimulus' = sf_read(files, args.stimulus_filename)
    /\ cm_band' = [lo |-> frequency2samples(args.low_freq, args.fs, args.fft),
                   hi |-> frequency2samples(args.high_freq, args.fs, args.fft)]
    /\ cm_noise' = generate_noise(args.fs, white_noise)
    /\ cm_playback' = generate_noise(args.fs, white_noise)

\* lines 213-222: a call of main
CmStart ==
    /\ cm_pc = "idle"
    /\ \E args \in CmArgs, ch \in CmChannels :
       \E white_noise \in CmWhite(args.fs) : main_opening(args, ch, white_noise)
    /\ cm_round' = 1
    /\ cm_pc' = "probe"
    /\ UNCHANGED <<files, expVars, cm_recording_of_noise, cm_compensation_filter,
                   cm_compensated_noise, cm_recording_of_compensated_noise,
                   cm_final_compensation_filter, cm_compensated_stimulus,
                   cm_recording_of_compensated_stimulus, cm_returned>>

\* lines 225-230: emit the probe, derive the filter of this pass, filter the probe
CmProbe ==
    /\ cm_pc = "probe"
    /\ LET recording_of_noise == play_and_record(cm_playback, cm_args.fs, cm_channel)
           compensation_filter ==
                round_filter(cm_noise, cm_playback, recording_of_noise, cm_args, cm_band)
       IN  /\ cm_recording_of_noise' = recording_of_noise
           /\ cm_compensation_filter' = compensation_filter
           /\ cm_compensated_noise' = compensate(cm_playback, compensation_filter.taps)
    /\ cm_pc' = "verify"
    /\ UNCHANGED <<files, expVars, cm_args, cm_channel, cm_round, cm_stimulus, cm_band,
                   cm_noise, cm_playback, cm_recording_of_compensated_noise,
                   cm_final_compensation_filter, cm_compensated_stimulus,
                   cm_recording_of_compensated_stimulus, cm_returned>>

\* lines 233-234: emit the filtered probe and plot the spectra, which raises
\* ValueError when the band holds no bin or a bin of zero amplitude
CmVerify ==
    /\ cm_pc = "verify"
    /\ LET recording_of_compensated_noise ==
                play_and_record(cm_compensated_noise, cm_args.fs, cm_channel)
       IN  /\ cm_recording_of_compensated_noise' = recording_of_compensated_noise
           /\ cm_pc' = IF plot_amplitude_spectra(cm_noise, recording_of_compensated_noise,
                                                 cm_args.fft, cm_band.lo, cm_band.hi)
                            = "ValueError"
                       THEN "value_error"
                       ELSE "ask"
    /\ UNCHANGED <<files, expVars, cm_args, cm_channel, cm_round, cm_stimulus, cm_band,
                   cm_noise, cm_playback, cm_recording_of_noise, cm_compensation_filter,
                   cm_compensated_noise, cm_final_compensation_filter,
                   cm_compensated_stimulus, cm_recording_of_compensated_stimulus,
                   cm_returned>>

\* lines 236-239: the operator asks for another pass
CmAgain ==
    /\ cm_pc = "ask"
    /\ cm_round < MaxRounds
    /\ \E iterate_again \in Answers : iterate_again = "Y" \/ iterate_again = "y"
    /\ cm_playback' = cm_compensated_noise
    /\ cm_round' = cm_round + 1
    /\ cm_pc' = "probe"
    /\ UNCHANGED <<files, expVars, cm_args, cm_channel, cm_stimulus, cm_band, cm_noise,
                   cm_recording_of_noise, cm_compensation_filter, cm_compensated_noise,
                   cm_recording_of_compensated_noise, cm_final_compensation_filter,
                   cm_compensated_stimulus, cm_recording_of_compensated_stimulus,
                   cm_returned>>

\* a faulty finalization, which filters the compensated noise instead of the
\* stimulus: C19 must tell it from the code's
CmFinalize_filters_noise ==
    /\ cm_pc = "ask"
    /\ \E iterate_again \in Answers : ~(iterate_again = "Y" \/ iterate_again = "y")
    /\ LET final_compensation_filter ==
                get_compensation_filter(cm_compensated_noise, cm_noise, cm_args.fs,
                                        cm_args.fft, cm_band.lo, cm_band.hi)
       IN  /\ cm_final_compensation_filter' = final_compensation_filter
           /\ cm_compensated_stimulus' =
                    compensate(cm_compensated_noise, final_compensation_filter.taps)
    /\ cm_pc' = "final_play"
    /\ UNCHANGED <<files, expVars, cm_args, cm_channel, cm_round, cm_stimulus, cm_band,
                   cm_noise, cm_playback, cm_recording_of_noise, cm_compensation_filter,
                   cm_compensated_noise, cm_recording_of_compensated_noise,
                   cm_recording_of_compensated_stimulus, cm_returned>>

\* lines 240-245: any other answer: derive the final filter, filter the stimulus
CmFinalize ==
    /\ cm_pc = "ask"
    /\ \E iterate_again \in Answers : ~(iterate_again = "Y" \/ iterate_again = "y")
    /\ LET final_compensation_filter ==
                get_compensation_filter(cm_compensated_noise, cm_noise, cm_args.fs,
                                        cm_args.fft, cm_band.lo, cm_band.hi)
       IN  /\ cm_final_compensation_filter' = final_compensation_filter
           /\ cm_compensated_stimulus' =
                    compensate(cm_stimulus, final_compensation_filter.taps)
    /\ cm_pc' = "final_play"
    /\ UNCHANGED <<files, expVars, cm_args, cm_channel, cm_round, cm_stimulus, cm_band,
                   cm_noise, cm_playback, cm_recording_of_noise, cm_compensation_filter,
                   cm_compensated_noise, cm_recording_of_compensated_noise,
                   cm_recording_of_compensated_stimulus, cm_returned>>

\* lines 247-257 and experiment.py 43-46: emit the compensated stimulus and
\* plot the spectra, which raises ValueError when the band holds no bin or
\* a bin of zero amplitude; otherwise write the file and return to
\* Experiment.generate_compensation_filter, which stores the pair
CmReturn ==
    /\ cm_pc = "final_play"
    /\ LET recording_of_compensated_stimulus ==
                play_and_record(cm_compensated_stimulus, cm_args.fs, cm_channel)
           compensated_filename ==
                output_filename("compensated_", cm_args.stimulus_filename)
       IN  /\ cm_recording_of_compensated_stimulus' = recording_of_compensated_stimulus
           /\ IF plot_amplitude_spectra(cm_stimulus, recording_of_compensated_stimulus,
                                        cm_args.fft, cm_band.lo, cm_band.hi) = "ValueError"
              THEN /\ cm_pc' = "value_error"
                   /\ UNCHANGED <<files, expVars, cm_returned>>
              ELSE /\ files' = sf_write(files, compensated_filename, cm_compensated_stimulus)
                   /\ cm_returned' = <<cm_compensation_filter, compensated_filename>>
                   /\ exp_compensation_filter' = cm_compensation_filter
                   /\ exp_compensated_filename' = compensated_filename
                   /\ UNCHANGED <<exp_stimulus, exp_calibration_mulitplier,
                                  exp_calibrated_filename>>
                   /\ cm_pc' = "returned"
    /\ UNCHANGED <<cm_args, cm_channel, cm_round, cm_stimulus, cm_band, cm_noise,
                   cm_playback, cm_recording_of_noise, cm_compensation_filter,
                   cm_compensated_noise, cm_recording_of_compensated_noise,
                   cm_final_compensation_filter, cm_compensated_stimulus>>

\* a faulty failure path, which still writes the compensated file when the
\* last emission fails: C21 must tell it from the code's
CmHardwareFails_writes_file ==
    /\ cm_pc \in {"probe", "verify", "final_play"}
    /\ cm_pc' = "raised"
    /\ files' = IF cm_pc = "final_play"
                THEN sf_write(files, output_filename("compensated_",
                                                     cm_args.stimulus_filename),
                              cm_compensated_stimulus)
                ELSE files
    /\ UNCHANGED <<expVars, cm_args, cm_channel, cm_round, cm_stimulus, cm_band,
                   cm_noise, cm_playback, cm_recording_of_noise, cm_compensation_filter,
                   cm_compensated_noise, cm_recording_of_compensated_noise,
                   cm_final_compensation_filter, cm_compensated_stimulus,
                   cm_recording_of_compensated_stimulus, cm_returned>>

\* sd.playrec raises inside any play_and_record: the exception leaves main and
\* Experiment.generate_compensation_filter
CmHardwareFails ==
    /\ cm_pc \in {"probe", "verify", "final_play"}
    /\ cm_pc' = "raised"
    /\ UNCHANGED <<files, expVars, cm_args, cm_channel, cm_round, cm_stimulus, cm_band,
                   cm_noise, cm_playback, cm_recording_of_noise, cm_compensation_filter,
                   cm_compensated_noise, cm_recording_of_compensated_noise,
                   cm_final_compensation_filter, cm_compensated_stimulus,
                   cm_recording_of_compensated_stimulus, cm_returned>>

InitCompensation ==
    /\ TpIdle /\ ClIdle /\ ExpInit /\ CmIdle /\ FnIdle /\ CaIdle /\ AppIdle /\ SsIdle
    /\ \E stimulus \in CmStimuli : files = { <<StimulusFile, stimulus>> }
NextCompensation ==
    \/ CmStart /\ UNCHANGED <<tpVars, clVars, fnVars, caVars, appVars, ssVars>>
    \/ CmProbe /\ UNCHANGED <<tpVars, clVars, fnVars, caVars, appVars, ssVars>>
    \/ CmVerify /\ UNCHANGED <<tpVars, clVars, fnVars, caVars, appVars, ssVars>>
    \/ CmAgain /\ UNCHANGED <<tpVars, clVars, fnVars, caVars, appVars, ssVars>>
    \/ CmFinalize /\ UNCHANGED <<tpVars, clVars, fnVars, caVars, appVars, ssVars>>
    \/ CmReturn /\ UNCHANGED <<tpVars, clVars, fnVars, caVars, appVars, ssVars>>
    \/ CmHardwareFails /\ UNCHANGED <<tpVars, clVars, fnVars, caVars, appVars, ssVars>>
SpecCompensation == InitCompensation /\ [][NextCompensation]_vars

\* C3: the filter the compensation run hands to its caller is the final
\* filter (reference = compensated noise, measured = original noise), the one
\* that was applied to the stimulus.
C3_ReturnsFinalFilter ==
    cm_pc = "returned" =>
        /\ cm_returned[1] = cm_final_compensation_filter
        /\ exp_compensation_filter = cm_final_compensation_filter

\* C5 as claimed: in every pass the filter's reference is the probe emitted
\* in that pass and its measured waveform the response to that probe.
C5_FilterFromCurrentProbe ==
    cm_pc \in {"verify", "ask"} =>
        /\ cm_compensation_filter.reference = cm_playback
        /\ cm_compensation_filter.measured =
                play_and_record(cm_playback, cm_args.fs, cm_channel)

\* C5 as amended: in every pass the filter's reference is the original noise
\* (which is the emitted probe in the first pass only) and its measured
\* waveform the response to the probe emitted in that pass.
C5_FilterFromNoise ==
    cm_pc \in {"verify", "ask"} =>
        /\ cm_compensation_filter.reference = cm_noise
        /\ cm_compensation_filter.measured =
                play_and_record(cm_playback, cm_args.fs, cm_channel)
        /\ cm_round = 1 => cm_playback = cm_noise

\* a second pass whose probe is not the original noise
C5_Witness ==
    /\ cm_pc = "verify"
    /\ cm_round = 2
    /\ cm_playback # cm_noise
    /\ cm_compensation_filter.reference = cm_noise

\* the steps of one run, told apart by the position before and after
FinalizationStep == cm_pc = "ask" /\ cm_pc' = "final_play"
ContinuationStep == cm_pc = "ask" /\ cm_pc' = "probe"
WritingStep      == cm_pc = "final_play" /\ cm_pc' = "returned"

\* C18: in a compensation run the final filter and the filtered stimulus are
\* derived only in the step that follows an answer other than 'y'/'Y', and
\* the file is written only in the step after it, so no file is written
\* before that answer; a 'y' answer makes the filtered probe of the pass the
\* probe of the next pass; once the final filter is derived the run never
\* goes back to a probe pass: it writes the file and returns, unless the
\* hardware fails.
C18_LoopControl ==
    [][ /\ cm_pc \notin {"returned", "raised", "value_error"}
        /\ (cm_final_compensation_filter' # cm_final_compensation_filter
              \/ cm_compensated_stimulus' # cm_compensated_stimulus)
            => FinalizationStep
        /\ files' # files => WritingStep
        /\ ContinuationStep =>
            /\ cm_playback' = cm_compensated_noise
            /\ cm_round' = cm_round + 1
            /\ files' = files
        /\ cm_pc = "final_play" => cm_pc' \in {"returned", "raised"}
        /\ cm_pc' = "probe" => cm_pc = "idle" \/ ContinuationStep
      ]_vars

\* C19: when the run has returned, the waveform handed to sf.write is the
\* stimulus of the stimulus file filtered by the final filter and passed
\* through the clip guard, which is neither the filtered probe nor the
\* filtered compensated noise; it is the waveform that was emitted for the
\* verification recording; and the compensated file holds the 16-bit
\* encoding of that waveform.
C19_FilteredStimulusWritten ==
    cm_pc = "returned" =>
        LET stimulus == sf_read(files, cm_args.stimulus_filename)
            taps     == cm_final_compensation_filter.taps
            written  == cm_compensated_stimulus
            stored   == sf_read(files, output_filename("compensated_",
                                                       cm_args.stimulus_filename))
        IN  /\ written = compensate(stimulus, taps)
            /\ written # compensate(cm_playback, taps)
            /\ written # compensate(cm_compensated_noise, taps)
            /\ cm_recording_of_compensated_stimulus =
                    play_and_record(written, cm_args.fs, cm_channel)
            /\ stored = pcm_16(compensate(stimulus, taps))

\* a returned run whose final filter changed the stimulus, whose clip guard
\* attenuated the result and whose file holds samples the encoding rounded
C19_Witness ==
    /\ cm_pc = "returned"
    /\ LET filtered == signal_lfilter(cm_final_compensation_filter.taps, cm_stimulus)
           stored   == sf_read(files, output_filename("compensated_",
                                                      cm_args.stimulus_filename))
       IN  /\ filtered # cm_stimulus
           /\ cm_compensated_stimulus # filtered
           /\ stored = pcm_16(cm_compensated_stimulus)
           /\ stored # cm_compensated_stimulus

-----------------------------------------------------------------------------
(* calibration.py: the functions of the calibration engine *)

\* generate_click(fs): 2*fs zeros with a one at index round(len(click)/2)
generate_click(fs) ==
    from_fn(2 * fs, [i \in {py_round(2 * fs, 2)} |-> One])

\* get_time_delay(fs, ...), given what sd.playrec captured
get_time_delay(fs, captured) ==
    LET click          == generate_click(fs)
        recorded_click == engine_play_and_record(click, fs, captured).value
    IN  np_argmax(recorded_click) - fs

\* get_peak_amplitude(recording, amp_conversion, time_delay), recording nonempty:
\* <<playback_peak_location, recording_peak_amp>>
get_peak_amplitude(recording, amp_conversion, time_delay) ==
    LET peak                    == py_max(np_abs(recording))
        recording_peak_location == first_index(np_abs(recording), peak)
    IN  <<recording_peak_location - time_delay, RMul(amp_conversion, peak)>>

\* get_peak_segmentment(playback, peak_location, segment_size).  Setting the
\* first len(ramp) samples of a window shorter than the ramp raises ValueError
\* (shapes do not broadcast) unless the ramp has a single sample.
get_peak_segmentment(playback, peak_location, segment_size) ==
    LET half    == py_round(segment_size, 2)
        segment == py_slice(playback, peak_location - half, peak_location + half)
        ramp    == py_round(segment_size, 8)
    IN  IF segment.len < ramp /\ ramp > 1
        THEN Raised("ValueError")
        ELSE Ok(apply_window(segment, ramp))

\* the number of steps of the ladder, np.linspace(0.01, step_max, 20)
NumSteps == 20

\* lines 116-117: the largest multiplier of the ladder (segment nonempty,
\* recording_peak_amp and target_peak_amp positive)
ladder_step_max(segment, recording_peak_amp, target_peak_amp) ==
    LET segment_max == py_max(np_abs(segment))
    IN  RDiv(RMul(Rat(125, 100), segment_max),
             RDiv(recording_peak_amp, target_peak_amp))

\* np.linspace(start, stop, num) as a tuple, num >= 2
np_linspace(start, stop, num) ==
    [k \in 1 .. num |->
        IF k = num THEN stop
        ELSE RAdd(start, RMul(RInt(k - 1), RDiv(RSub(stop, start), RInt(num - 1))))]

\* generate_ladder(fs, segment, segment_size, recording_peak_amp, target_peak_amp):
\* steps, playback_ladder and segment_locations ([start, end] per step)
generate_ladder(fs, segment, segment_size, recording_peak_amp, target_peak_amp) ==
    LET step_max == ladder_step_max(segment, recording_peak_amp, target_peak_amp)
        steps    == np_linspace(Rat(1, 100), step_max, NumSteps)
        ladder_of_segments ==
            from_fn(NumSteps * segment.len,
                    [n \in { k * segment.len + i : k \in 0 .. NumSteps - 1,
                                                   i \in DOMAIN segment.nz } |->
                        RMul(steps[(n \div segment.len) + 1],
                             segment.nz[n % segment.len])])
        padding  == np_zeros(fs)
    IN  [steps |-> steps,
         playback_ladder |-> np_append(np_append(padding, ladder_of_segments), padding),
         segment_locations |->
            [k \in 1 .. NumSteps |->
                <<(k - 1) * segment_size + 1 + padding.len,
                  k * segment_size + padding.len>>]]

\* a faulty find_segments_in_recording, which forgets the time delay: C22
\* must tell it from the code's
find_segments_in_recording_unshifted(segment_locations, time_delay) ==
    [k \in DOMAIN segment_locations |->
        <<segment_locations[k][1], segment_locations[k][2]>>]

\* find_segments_in_recording(segment_locations, time_delay)
find_segments_in_recording(segment_locations, time_delay) ==
    [k \in DOMAIN segment_locations |->
        <<segment_locations[k][1] + time_delay, segment_locations[k][2] + time_delay>>]

\* find_peaks(recording_of_ladder, recording_segment_locations, amp_conversion);
\* max() of an empty slice raises ValueError
find_peaks(recording_of_ladder, recording_segment_locations, amp_conversion) ==
    LET this_segment(k) ==
            py_slice(recording_of_ladder, recording_segment_locations[k][1],
                     recording_segment_locations[k][2])
    IN  IF \E k \in DOMAIN recording_segment_locations : this_segment(k).len = 0
        THEN Raised("ValueError")
        ELSE [status |-> "ok",
              value  |-> [k \in DOMAIN recording_segment_locations |->
                            RMul(amp_conversion, py_max(np_abs(this_segment(k))))]]

\* line 166: the indices of recording_of_ladder[start:end], per step
find_peaks_examined(recording_of_ladder, recording_segment_locations) ==
    [k \in DOMAIN recording_segment_locations |->
        { i \in 0 .. recording_of_ladder.len - 1 :
            /\ i >= slice_bound(recording_segment_locations[k][1], recording_of_ladder.len)
            /\ i < slice_bound(recording_segment_locations[k][2], recording_of_ladder.len) }]

\* lines 124-135: the indices of step k (1 .. NumSteps) in playback_ladder,
\* after round(fs) samples of silence
ladder_step_samples(fs, segment_len, k) ==
    { fs + (k - 1) * segment_len + i : i \in 0 .. segment_len - 1 }

\* calibrate_amplitude(playback, multiplier)
calibrate_amplitude(playback, multiplier) == np_multiply(playback, multiplier)

\* the sum of the numbers lo .. hi of a tuple, and of all of them
RECURSIVE RSumOf(_, _, _)
RSumOf(s, lo, hi) ==
    IF lo > hi THEN Zero
    ELSE IF lo = hi THEN s[lo]
    ELSE RAdd(RSumOf(s, lo, (lo + hi) \div 2), RSumOf(s, (lo + hi) \div 2 + 1, hi))
RSum(s) == RSumOf(s, 1, Len(s))

\* the least-squares line <<slope, intercept>> through the points (x[k], y[k]),
\* as np.polyfit(x, y, 1) returns it.  When all x are equal the fit is rank
\* deficient and polyfit returns the least-norm solution of its column-scaled
\* system; when they are all zero the scaling divides by zero and
\* np.linalg.lstsq raises LinAlgError.
np_polyfit1(x, y) ==
    LET n   == RInt(Len(x))
        sx  == RSum(x)
        sy  == RSum(y)
        sxx == RSum([k \in DOMAIN x |-> RMul(x[k], x[k])])
        sxy == RSum([k \in DOMAIN x |-> RMul(x[k], y[k])])
        det == RSub(RMul(n, sxx), RMul(sx, sx))
        slope == RDiv(RSub(RMul(n, sxy), RMul(sx, sy)), det)
    IN  IF det # Zero
        THEN Ok(<<slope, RDiv(RSub(sy, RMul(slope, sx)), n)>>)
        ELSE IF x[1] = Zero
        THEN Raised("LinAlgError")
        ELSE Ok(<<RDiv(RDiv(sy, n), RMul(RInt(2), x[1])), RDiv(RDiv(sy, n), RInt(2))>>)

\* a faulty regression, of the peaks on the steps: C14 must tell it from
\* the code's
perform_regression_swapped(steps, recording_peaks) == np_polyfit1(steps, recording_peaks)

\* perform_regression(steps, recording_peaks): np.polyfit(recording_peaks, steps, 1)
perform_regression(steps, recording_peaks) == np_polyfit1(recording_peaks, steps)

\* get_amplitude_multiplier(polynomial, target_amp): np.polyval
get_amplitude_multiplier(polynomial, target_amp) ==
    RAdd(RMul(polynomial[1], target_amp), polynomial[2])

-----------------------------------------------------------------------------
(* The calibration functions called on their own *)

\* sampling rates of the click
MaxFs == 2
\* the samples a capture of the click may hold
ClickVals == { RInt(-2), Rat(1, 2), RInt(1) }
\* every array of exactly n samples drawn from vals and 0
WaveformsOfLen(n, vals) == { w \in Waveforms(n, vals) : w.len = n }

\* get_time_delay on any capture of the emitted length
CallGetTimeDelay ==
    /\ fn = "none"
    /\ \E fs \in 1 .. MaxFs :
       \E captured \in WaveformsOfLen(lengthen(generate_click(fs), fs).len, ClickVals) :
        /\ fn_args' = [fs |-> fs, captured |-> captured,
                       recorded_click |->
                           engine_play_and_record(generate_click(fs), fs, captured).value]
        /\ fn_result' = get_time_delay(fs, captured)
    /\ fn' = "get_time_delay"

\* segment_size in calibration.main
segment_size == 8192

\* the stimuli of the segment calls: n samples, of which four are not zero
SegLens == { 5000, 8192, 12000 }
SegStimulus(n) ==
    from_fn(n, [i \in {0, 4500, n - 342, n - 1} |->
                  IF i = 0 THEN Rat(1, 4)
                  ELSE IF i = 4500 THEN Rat(1, 2)
                  ELSE IF i = n - 342 THEN Rat(3, 4)
                  ELSE Rat(-1, 4)])
\* where the recording of a stimulus of n samples may peak
SegPeaks(n) ==
    { i \in {0, 100, 4095, 4096, 4500, 7914, 8255, n - 4097, n - 4096, n - 4095,
             n - 2000, n - 500, n - 1} : i >= 0 /\ i < n }

\* whether the window of get_peak_segmentment is rational at every nonzero
\* sample of the segment, or is never computed (ValueError)
segment_rational(playback, peak_location, size) ==
    LET half    == py_round(size, 2)
        segment == py_slice(playback, peak_location - half, peak_location + half)
        ramp    == py_round(size, 8)
    IN  \/ segment.len < ramp /\ ramp > 1
        \/ \A i \in DOMAIN segment.nz : window_rational(segment.len, ramp, i)
SegDelays == { -3, 0, 5, 200 }

\* lines 233-236 of calibration.main: locate the peak of a recording of the
\* stimulus and window the stimulus around it
CallGetPeakSegment ==
    /\ fn = "none"
    /\ \E n \in SegLens : \E q \in SegPeaks(n), time_delay \in SegDelays :
        LET playback  == SegStimulus(n)
            recording == from_fn(n, [i \in {q} |-> RInt(-1)])
            located   == get_peak_amplitude(recording, RInt(98), time_delay)
        IN  /\ segment_rational(playback, located[1], segment_size)
            /\ fn_args' = [playback |-> playback, recording |-> recording,
                           time_delay |-> time_delay, peak_location |-> located[1]]
            /\ fn_result' = get_peak_segmentment(playback, located[1], segment_size)
    /\ fn' = "get_peak_segmentment"

\* the segments and peaks of the ladder calls
LdSegments ==
    { Arr(<<One>>), Arr(<<Rat(1, 2), RInt(-1)>>), Arr(<<Rat(-1, 2), Rat(1, 4)>>),
      Arr(<<Zero, Zero>>), Arr(<<Rat(9, 10), Zero, Rat(-1, 10)>>) }
LdMeasured == { Rat(1, 2), RInt(2), RInt(49), RInt(500) }
LdTargets == { Rat(1, 10), One, RInt(5) }

\* generate_ladder on a segment of segment_size samples
CallGenerateLadder ==
    /\ fn = "none"
    /\ \E fs \in 1 .. MaxFs, segment \in LdSegments,
          recording_peak_amp \in LdMeasured, target_peak_amp \in LdTargets :
        /\ fn_args' = [fs |-> fs, segment |-> segment,
                       recording_peak_amp |-> recording_peak_amp,
                       target_peak_amp |-> target_peak_amp]
        /\ fn_result' = generate_ladder(fs, segment, segment.len, recording_peak_amp,
                                        target_peak_amp)
    /\ fn' = "generate_ladder"

\* the segments and time delays of the find_peaks calls
FpSegments ==
    { Arr(<<One>>), Arr(<<Rat(1, 2), RInt(-1)>>), Arr(<<Rat(9, 10), Rat(1, 4), Rat(-1, 10)>>) }
FpDelays == -1 .. MaxFs + 1
FpTargets == { One, RInt(5) }

\* lines 242-251 of calibration.main: build the ladder on a segment of
\* segment_size samples, emit it through a chain of gain 1 that delays by
\* time_delay samples, locate the steps in the recording and take their peaks
CallFindPeaks ==
    /\ fn = "none"
    /\ \E fs \in 1 .. MaxFs, segment \in FpSegments, time_delay \in FpDelays,
          target_peak_amp \in FpTargets :
        LET ladder    == generate_ladder(fs, segment, segment.len, RInt(2), target_peak_amp)
            recording == IF time_delay >= 0
                         THEN sd_playrec(ladder.playback_ladder,
                                         [gain |-> One, delay |-> time_delay])
                         ELSE py_slice(np_append(ladder.playback_ladder,
                                                 np_zeros(-time_delay)),
                                       -time_delay,
                                       ladder.playback_ladder.len - time_delay)
            recording_segment_locations ==
                find_segments_in_recording(ladder.segment_locations, time_delay)
        IN  /\ fn_args' = [fs |-> fs, segment |-> segment, time_delay |-> time_delay,
                           steps |-> ladder.steps, recording |-> recording]
            /\ fn_result' =
                    [locations |-> recording_segment_locations,
                     examined  |-> find_peaks_examined(recording,
                                                       recording_segment_locations),
                     peaks     |-> find_peaks(recording, recording_segment_locations,
                                              RInt(25))]
    /\ fn' = "find_peaks"

\* the lines multiplier = a * peak + b and the peaks of the regression calls
RgSlopes == { Rat(1, 10), RInt(2), Rat(-1, 2) }
RgIntercepts == { Zero, Rat(1, 4), RInt(-1) }
RgPeaks ==
    { <<Zero, One>>, <<One, One, RInt(3)>>, <<RInt(5), Rat(1, 2), RInt(2), RInt(2)>>,
      [k \in 1 .. NumSteps |-> Rat(k, 4)], <<RInt(2), RInt(2), RInt(2)>>,
      <<Zero, Zero>> }
RgTargets == { Zero, RInt(2), Rat(191, 10) }

\* perform_regression on points of a line, then get_amplitude_multiplier
CallRegression ==
    /\ fn = "none"
    /\ \E a \in RgSlopes, b \in RgIntercepts, recording_peaks \in RgPeaks,
          target_amp \in RgTargets :
        LET steps == [k \in DOMAIN recording_peaks |->
                        RAdd(RMul(a, recording_peaks[k]), b)]
            polynomial == perform_regression(steps, recording_peaks)
        IN  /\ fn_args' = [a |-> a, b |-> b, steps |-> steps,
                           recording_peaks |-> recording_peaks, target_amp |-> target_amp]
            /\ fn_result' =
                    [polynomial |-> polynomial,
                     multiplier |-> IF polynomial.status = "ok"
                                    THEN get_amplitude_multiplier(polynomial.value, target_amp)
                                    ELSE Zero]
    /\ fn' = "perform_regression"

InitCalibrationFunctions == TpIdle /\ ClIdle /\ files = {} /\ ExpInit /\ CmIdle /\ FnIdle /\ CaIdle /\ AppIdle /\ SsIdle
NextCalibrationFunctions ==
    \/ CallGetTimeDelay /\ UNCHANGED <<tpVars, clVars, files, expVars, cmVars, caVars, appVars, ssVars>>
    \/ CallGetPeakSegment /\ UNCHANGED <<tpVars, clVars, files, expVars, cmVars, caVars, appVars, ssVars>>
    \/ CallGenerateLadder /\ UNCHANGED <<tpVars, clVars, files, expVars, cmVars, caVars, appVars, ssVars>>
    \/ CallRegression /\ UNCHANGED <<tpVars, clVars, files, expVars, cmVars, caVars, appVars, ssVars>>
    \/ CallFindPeaks /\ UNCHANGED <<tpVars, clVars, files, expVars, cmVars, caVars, appVars, ssVars>>
SpecCalibrationFunctions ==
    InitCalibrationFunctions /\ [][NextCalibrationFunctions]_vars

\* C22: for a segment of segment_size samples and a time delay d >= 0 that
\* keeps the ladder inside the recording, the samples find_peaks examines
\* for step k are samples of step k of the ladder shifted by d, and hold
\* that step's multiple of the segment; the samples examined for an earlier
\* step all come before those examined for a later one.
C22_StepRanges ==
    (/\ fn = "find_peaks"
     /\ fn_args.time_delay >= 0
     /\ fn_args.time_delay <= fn_args.fs) =>
        LET S == fn_args.segment.len
            d == fn_args.time_delay
        IN  \A k \in 1 .. NumSteps :
                /\ fn_result.examined[k] \subseteq
                        { i + d : i \in ladder_step_samples(fn_args.fs, S, k) }
                /\ py_slice(fn_args.recording, fn_result.locations[k][1],
                            fn_result.locations[k][2]) =
                        np_multiply(py_slice(fn_args.segment, 1, S), fn_args.steps[k])
                /\ \A j \in 1 .. k - 1 :
                        \A a \in fn_result.examined[j], b \in fn_result.examined[k] : a < b

\* a ladder of three-sample steps delayed by two samples, every step examined
C22_Witness ==
    /\ fn = "find_peaks"
    /\ fn_args.fs = 2
    /\ fn_args.time_delay = 2
    /\ fn_args.segment.len = 3
    /\ fn_result.peaks.status = "ok"
    /\ \A k \in 1 .. NumSteps : Cardinality(fn_result.examined[k]) = 2
    /\ fn_result.examined[NumSteps] = { 2 + 2 + 19 * 3 + 1, 2 + 2 + 19 * 3 + 2 }

\* C6: the time delay is the index of the sample of largest absolute value
\* of the recorded click, minus fs, also when that sample is negative.
C6_TimeDelayOfPeak ==
    fn = "get_time_delay" =>
        fn_result =
            first_index(np_abs(fn_args.recorded_click), Peak(fn_args.recorded_click))
            - fn_args.fs

\* C14: for points lying on the line multiplier = a * peak + b, with at least
\* two distinct peaks, perform_regression returns (a, b) and
\* get_amplitude_multiplier at a target t returns a * t + b.
C14_RegressionRoundTrip ==
    (/\ fn = "perform_regression"
     /\ \E j, k \in DOMAIN fn_args.recording_peaks :
            fn_args.recording_peaks[j] # fn_args.recording_peaks[k]) =>
        /\ fn_result.polynomial = Ok(<<fn_args.a, fn_args.b>>)
        /\ fn_result.multiplier = RAdd(RMul(fn_args.a, fn_args.target_amp), fn_args.b)

\* the fit of twenty points of a line with a slope and an intercept
C14_Witness ==
    /\ fn = "perform_regression"
    /\ Len(fn_args.recording_peaks) = NumSteps
    /\ fn_args.a = Rat(1, 10) /\ fn_args.b = Rat(1, 4)
    /\ fn_args.target_amp = Rat(191, 10)
    /\ fn_result.polynomial = Ok(<<Rat(1, 10), Rat(1, 4)>>)
    /\ fn_result.multiplier = Rat(216, 100)

\* C8: the 20 step multipliers are strictly increasing, the first is 0.01 and
\* the last is step_max.
C8_LadderIncreasing ==
    fn = "generate_ladder" =>
        /\ \A k \in 1 .. NumSteps - 1 : RLt(fn_result.steps[k], fn_result.steps[k + 1])
        /\ fn_result.steps[1] = Rat(1, 100)
        /\ fn_result.steps[NumSteps] =
                ladder_step_max(fn_args.segment, fn_args.recording_peak_amp,
                                fn_args.target_peak_amp)

\* C9: step_max, the top step of the ladder, is greater than the anticipated
\* operating multiplier target_peak / measured_peak.
C9_LadderCeiling ==
    fn = "generate_ladder" =>
        /\ RLt(RDiv(fn_args.target_peak_amp, fn_args.recording_peak_amp),
               ladder_step_max(fn_args.segment, fn_args.recording_peak_amp,
                               fn_args.target_peak_amp))
        /\ RLt(RDiv(fn_args.target_peak_amp, fn_args.recording_peak_amp),
               fn_result.steps[NumSteps])

\* C10: the segment has exactly segment_size samples and holds the windowed
\* stimulus samples of indices [peak - 4096, peak + 4096), wherever the located
\* peak lies.
C10_SegmentSpan ==
    fn = "get_peak_segmentment" =>
        LET first == fn_args.peak_location - segment_size \div 2
        IN  /\ fn_result.status = "ok"
            /\ fn_result.value.len = segment_size
            /\ first >= 0
            /\ first + segment_size <= fn_args.playback.len
            /\ \A k \in DOMAIN fn_args.playback.nz :
                    (k >= first /\ k < first + segment_size) =>
                        At(fn_result.value, k - first) =
                            RMul(fn_args.playback.nz[k],
                                 window_at(segment_size, segment_size \div 8, k - first))

-----------------------------------------------------------------------------
(* calibration.main: one calibration run *)

\* the stimuli of the calibration runs: 12000 or 9000 samples, an impulse of
\* magnitude 4/5 and at most one smaller sample
CaStimuli ==
    { from_fn(12000, [i \in {6000} |-> Rat(4, 5)]),
      from_fn(12000, [i \in {5000, 6000} |-> IF i = 5000 THEN Rat(1, 10) ELSE Rat(-4, 5)]),
      from_fn(12000, [i \in {100} |-> Rat(4, 5)]),
      from_fn(9000, [i \in {7000} |-> Rat(4, 5)]) }
\* main's arguments: the laser at 25 mm/s/V, targets of 2 and 19.1 mm/s
CaArgs ==
    { [fs |-> f, fft |-> 3, low_freq |-> 1, high_freq |-> 2,
       filename |-> StimulusFile, target_amp |-> target, amp_conversion |-> RInt(25)] :
        f \in {6, 12}, target \in {RInt(2), Rat(191, 10)} }
CaChannels ==
    { [gain |-> Rat(1, 2), delay |-> 0], [gain |-> Rat(1, 2), delay |-> 3],
      [gain |-> Rat(-1, 2), delay |-> 3], [gain |-> One, delay |-> 2],
      [gain |-> One, delay |-> 4] }
\* the chain on which play_and_record returns its playback unchanged: unit
\* gain, and a delay of the 2 * round(fs/6) samples that equalize_length drops
\* from the front of the recording
IdentityChain(ch, fs) == ch.gain = One /\ ch.delay = 2 * py_round(fs, 6)

\* lines 220-225: announce the run, read the stimulus, convert the band
CalStart ==
    /\ ca_pc = "idle"
    /\ \E args \in CaArgs, ch \in CaChannels :
        /\ ca_args' = args
        /\ ca_channel' = ch
        /\ ca_log' = Append(ca_log, <<"Calibrating ", args.filename>>)
        /\ ca_playback' = sf_read(files, args.filename)
    /\ ca_pc' = "started"
    /\ UNCHANGED <<files, expVars, ca_time_delay, ca_peak, ca_segment, ca_ladder,
                   ca_recording_peaks, ca_polynomial, ca_multiplier,
                   ca_calibrated_playback, ca_error, ca_returned>>

\* line 227: emit the click and measure the time delay
CalClick ==
    /\ ca_pc = "started"
    /\ ca_time_delay' =
            get_time_delay(ca_args.fs,
                           sd_playrec(lengthen(generate_click(ca_args.fs), ca_args.fs),
                                      ca_channel))
    /\ ca_pc' = "delay_known"
    /\ UNCHANGED <<files, expVars, ca_args, ca_channel, ca_playback, ca_peak, ca_segment,
                   ca_ladder, ca_recording_peaks, ca_polynomial, ca_multiplier,
                   ca_calibrated_playback, ca_log, ca_error, ca_returned>>

\* lines 230-238: record the stimulus, locate its peak, cut the segment around
\* it and build the ladder
CalLocate ==
    /\ ca_pc = "delay_known"
    /\ LET recording == play_and_record(ca_playback, ca_args.fs, ca_channel)
           located   == get_peak_amplitude(recording, ca_args.amp_conversion, ca_time_delay)
           segment   == get_peak_segmentment(ca_playback, located[1], segment_size)
       IN  /\ ca_peak' = located
           /\ IF segment.status = "ok"
              THEN /\ ca_segment' = segment.value
                   /\ ca_ladder' = generate_ladder(ca_args.fs, segment.value, segment_size,
                                                   located[2], ca_args.target_amp)
                   /\ ca_pc' = "ladder_built"
                   /\ ca_error' = ca_error
              ELSE /\ ca_pc' = "raised"
                   /\ ca_error' = segment.status
                   /\ UNCHANGED <<ca_segment, ca_ladder>>
    /\ UNCHANGED <<files, expVars, ca_args, ca_channel, ca_playback, ca_time_delay,
                   ca_recording_peaks, ca_polynomial, ca_multiplier,
                   ca_calibrated_playback, ca_log, ca_returned>>

\* lines 241-250: record the ladder, measure the peak of every step, fit the
\* line, evaluate it at the target and scale the stimulus
CalLadder ==
    /\ ca_pc = "ladder_built"
    /\ LET recording_of_ladder ==
               play_and_record(ca_ladder.playback_ladder, ca_args.fs, ca_channel)
           recording_segment_locations ==
               find_segments_in_recording(ca_ladder.segment_locations, ca_time_delay)
           recording_peaks ==
               find_peaks(recording_of_ladder, recording_segment_locations,
                          ca_args.amp_conversion)
           polynomial == perform_regression(ca_ladder.steps, recording_peaks.value)
           multiplier == get_amplitude_multiplier(polynomial.value, ca_args.target_amp)
       IN  IF recording_peaks.status # "ok"
           THEN /\ ca_pc' = "raised"
                /\ ca_error' = recording_peaks.status
                /\ UNCHANGED <<ca_recording_peaks, ca_polynomial, ca_multiplier,
                               ca_calibrated_playback>>
           ELSE IF polynomial.status # "ok"
           THEN /\ ca_pc' = "raised"
                /\ ca_error' = polynomial.status
                /\ ca_recording_peaks' = recording_peaks.value
                /\ UNCHANGED <<ca_polynomial, ca_multiplier, ca_calibrated_playback>>
           ELSE /\ ca_pc' = "calibrated"
                /\ ca_error' = ca_error
                /\ ca_recording_peaks' = recording_peaks.value
                /\ ca_polynomial' = polynomial.value
                /\ ca_multiplier' = multiplier
                /\ ca_calibrated_playback' = calibrate_amplitude(ca_playback, multiplier)
    /\ UNCHANGED <<files, expVars, ca_args, ca_channel, ca_playback, ca_time_delay,
                   ca_peak, ca_segment, ca_ladder, ca_log, ca_returned>>

\* lines 253-261: record the calibrated stimulus, plot, write the calibrated
\* file and return.  Nothing is printed and the waveform is not inspected.
CalReturn ==
    /\ ca_pc = "calibrated"
    /\ LET calibrated_filename == output_filename("calibrated_", ca_args.filename)
       IN  /\ files' = sf_write(files, calibrated_filename, ca_calibrated_playback)
           /\ ca_returned' = <<ca_multiplier, calibrated_filename>>
    /\ ca_pc' = "returned"
    /\ UNCHANGED <<expVars, ca_args, ca_channel, ca_playback, ca_time_delay, ca_peak,
                   ca_segment, ca_ladder, ca_recording_peaks, ca_polynomial,
                   ca_multiplier, ca_calibrated_playback, ca_log, ca_error>>

\* sd.playrec raises inside any play_and_record (the click of line 227, the
\* stimulus of line 230, the ladder of line 241, the calibrated stimulus of
\* line 253): the exception leaves main
CalHardwareFails ==
    /\ ca_pc \in {"started", "delay_known", "ladder_built", "calibrated"}
    /\ ca_pc' = "raised"
    /\ ca_error' = "PortAudioError"
    /\ UNCHANGED <<files, expVars, ca_args, ca_channel, ca_playback, ca_time_delay,
                   ca_peak, ca_segment, ca_ladder, ca_recording_peaks, ca_polynomial,
                   ca_multiplier, ca_calibrated_playback, ca_log, ca_returned>>

InitCalibration ==
    /\ TpIdle /\ ClIdle /\ ExpInit /\ CmIdle /\ FnIdle /\ CaIdle /\ AppIdle /\ SsIdle
    /\ \E stimulus \in CaStimuli : files = { <<StimulusFile, stimulus>> }
NextCalibration ==
    \/ CalStart /\ UNCHANGED <<tpVars, clVars, cmVars, fnVars, appVars, ssVars>>
    \/ CalClick /\ UNCHANGED <<tpVars, clVars, cmVars, fnVars, appVars, ssVars>>
    \/ CalLocate /\ UNCHANGED <<tpVars, clVars, cmVars, fnVars, appVars, ssVars>>
    \/ CalLadder /\ UNCHANGED <<tpVars, clVars, cmVars, fnVars, appVars, ssVars>>
    \/ CalReturn /\ UNCHANGED <<tpVars, clVars, cmVars, fnVars, appVars, ssVars>>
    \/ CalHardwareFails /\ UNCHANGED <<tpVars, clVars, cmVars, fnVars, appVars, ssVars>>
SpecCalibration == InitCalibration /\ [][NextCalibration]_vars

\* C13: on the identity chain every run that the hardware does not fail
\* measures, for each step of the ladder, a peak of k times its multiplier
\* (k = amp_conversion times the peak of the stimulus) and returns the
\* multiplier target_amp / k.
C13_IdentityChannel ==
    (ca_pc # "idle" /\ IdentityChain(ca_channel, ca_args.fs)
                    /\ ca_error # "PortAudioError") =>
        LET k == RMul(ca_args.amp_conversion, Peak(ca_playback))
        IN  /\ ca_error = "none"
            /\ ca_pc \in {"calibrated", "returned"} =>
                    /\ \A j \in 1 .. NumSteps :
                            ca_recording_peaks[j] = RMul(k, ca_ladder.steps[j])
                    /\ ca_multiplier = RDiv(ca_args.target_amp, k)
            /\ ca_pc = "returned" => ca_returned[1] = RDiv(ca_args.target_amp, k)

\* a printed line that is not the opening announcement of the run
IsWarning(line) == line[1] # "Calibrating "

\* C7: when the calibrated waveform (stimulus times multiplier) peaks at 1.0
\* or more, the run has printed a clipping warning, and the waveform handed
\* to sf.write is exactly stimulus times multiplier, of which the calibrated
\* file holds the 16-bit encoding.
C7_ClippingWarning ==
    (ca_pc = "returned" /\ RLe(One, Peak(ca_calibrated_playback))) =>
        /\ \E k \in DOMAIN ca_log : IsWarning(ca_log[k])
        /\ ca_calibrated_playback = np_multiply(ca_playback, ca_returned[1])
        /\ sf_read(files, ca_returned[2]) =
                pcm_16(np_multiply(ca_playback, ca_returned[1]))

-----------------------------------------------------------------------------
(* compensation.py: the functions of the filter design called on their own *)

\* the largest band edge (in bins) of the calls
MaxBin == 4

\* amplitude spectra of n bins, none of them zero
SpectrumLens == { 12, 13 }
Spectra(n) ==
    { from_fn(n, [i \in 0 .. n - 1 |-> <<Rat(1, 2), RInt(2), One>>[(i % 3) + 1]]),
      from_fn(n, [i \in 0 .. n - 1 |-> <<RInt(3), Rat(1, 4)>>[(i % 2) + 1]]) }

\* lines 116-120 on any pair of spectra and any band
CallAmpRatio ==
    /\ fn = "none"
    /\ \E n \in SpectrumLens, lo \in 0 .. MaxBin, hi \in 0 .. MaxBin :
       \E playback_amp \in Spectra(n), recording_amp \in Spectra(n) :
        /\ fn_args' = [playback_amp |-> playback_amp, recording_amp |-> recording_amp,
                       lo |-> lo, hi |-> hi]
        /\ fn_result' = band_amp_ratio(playback_amp, recording_amp, lo, hi)
    /\ fn' = "amp_ratio"

\* the largest fft size of the calls
MaxFft == 7

\* sounds of one Welch segment: two of the same shape and one of another
GcfSounds ==
    { Arr(<<Rat(1, 8), Rat(-1, 4)>>), Arr(<<Rat(1, 16), Rat(-1, 8)>>),
      Arr(<<Zero, Rat(1, 4)>>) }

\* get_compensation_filter on any fft size from 2 up, on the arguments for
\* which the model has the taps
CallGetCompensationFilter ==
    /\ fn = "none"
    /\ \E fft \in 2 .. MaxFft, fs \in {1, 12}, lo \in 0 .. 2, hi \in 1 .. 2 :
       \E playback \in GcfSounds, recording \in GcfSounds :
        /\ design_in_model(playback, recording, fft, lo, hi)
        /\ fn_args' = [playback |-> playback, recording |-> recording, fs |-> fs,
                       fft |-> fft, lo |-> lo, hi |-> hi]
        /\ fn_result' = get_compensation_filter(playback, recording, fs, fft, lo, hi)
    /\ fn' = "get_compensation_filter"

\* the largest frequency and the largest sampling rate and fft size of the
\* conversion calls
MaxFreq == 9
MaxRate == 9

\* frequency2samples (compensation.py and calibration.py hold the same text)
CallFrequency2Samples ==
    /\ fn = "none"
    /\ \E x \in { <<freq, fs, fft>> : freq \in 0 .. MaxFreq, fs \in 1 .. MaxRate,
                                       fft \in 1 .. MaxRate }
                \cup { <<100, 1000, 1000>>, <<0, 44100, 8192>>, <<20000, 44100, 8192>> } :
        /\ fn_args' = [freq |-> x[1], fs |-> x[2], fft |-> x[3]]
        /\ fn_result' = frequency2samples(x[1], x[2], x[3])
    /\ fn' = "frequency2samples"

InitCompensationFunctions ==
    TpIdle /\ ClIdle /\ files = {} /\ ExpInit /\ CmIdle /\ FnIdle /\ CaIdle /\ AppIdle /\ SsIdle
NextCompensationFunctions ==
    \/ CallAmpRatio /\ UNCHANGED <<tpVars, clVars, files, expVars, cmVars, caVars, appVars, ssVars>>
    \/ CallGetCompensationFilter
            /\ UNCHANGED <<tpVars, clVars, files, expVars, cmVars, caVars, appVars, ssVars>>
    \/ CallFrequency2Samples /\ UNCHANGED <<tpVars, clVars, files, expVars, cmVars, caVars, appVars, ssVars>>
SpecCompensationFunctions ==
    InitCompensationFunctions /\ [][NextCompensationFunctions]_vars

\* C11: before the filter is designed, every bin of amp_ratio below lo - 1
\* (for lo > 0) and every bin from hi + 10 to the end is exactly zero; for
\* lo = 0 no low bin is zeroed: the bins below hi + 10 keep the ratio of the
\* two spectra.
C11_BandZeroing ==
    fn = "amp_ratio" =>
        \A i \in 0 .. fn_result.len - 1 :
            /\ (fn_args.lo > 0 /\ i < fn_args.lo - 1) => At(fn_result, i) = Zero
            /\ i >= fn_args.hi + 10 => At(fn_result, i) = Zero
            /\ (fn_args.lo = 0 /\ i < fn_args.hi + 10) =>
                    At(fn_result, i) =
                        RDiv(At(fn_args.playback_amp, i), At(fn_args.recording_amp, i))

\* a band with zeroed bins on both sides and a bin that is kept
C11_Witness ==
    /\ fn = "amp_ratio"
    /\ fn_args.lo = 3
    /\ fn_args.hi = 1
    /\ fn_result.len = 13
    /\ At(fn_result, 0) = Zero /\ At(fn_result, 1) = Zero
    /\ At(fn_result, 11) = Zero /\ At(fn_result, 12) = Zero
    /\ At(fn_result, 10) # Zero

\* C12: the number of taps asked of the filter design, which is the length of
\* the filter, is odd: fft + 1 for an even fft, fft for an odd one.
C12_OddLength ==
    fn = "get_compensation_filter" =>
        /\ fn_result.numtaps % 2 = 1
        /\ fn_result.numtaps = IF fn_args.fft % 2 = 0 THEN fn_args.fft + 1 ELSE fn_args.fft
        /\ fn_result.taps.len = fn_result.numtaps

\* an even fft size, which gets one tap more
C12_Witness ==
    /\ fn = "get_compensation_filter"
    /\ fn_args.fft = 4
    /\ fn_result.numtaps = 5

\* C17: frequency2samples returns floor(freq * fft / fs); in particular
\* (100, 1000, 1000) gives 100 and a frequency of 0 gives 0.
C17_HzToBin ==
    fn = "frequency2samples" =>
        fn_result = (fn_args.freq * fn_args.fft) \div fn_args.fs

-----------------------------------------------------------------------------
(* application.py: the front end *)

\* the experiment names the operator may type, and the name main makes of
\* the date when the operator types none
ExperimentNames == { "", "pilot" }
DateName == "<date and time>"
\* what the operator may answer to a y/n question
YesNo == { "y", "Y", "n", "N", "" }

\* str.lower() == 'y' on those answers
is_yes(answer) == answer = "y" \/ answer = "Y"

\* the stages selected, in the order in which main runs them (lines 83-98)
SelectedStages(selected) ==
    (IF selected.compensate THEN <<"compensation">> ELSE <<>>)
        \o (IF selected.calibrate THEN <<"calibration">> ELSE <<>>)
        \o (IF selected.playback THEN <<"playback">> ELSE <<>>)

\* application.main.  Lines 20-27: the operator names the experiment and
\* selects the stages, then Controller(experiment_name) is called with one
\* argument where Controller.__init__ requires four: TypeError leaves main
\* and the rest of main (lines 29-98) never runs.
AppMain ==
    /\ app_pc = "idle"
    /\ \E typed \in ExperimentNames, answers \in YesNo \X YesNo \X YesNo :
        /\ app_name' = IF typed = "" THEN DateName ELSE typed
        /\ app_answers' = answers
        /\ app_selected' = [compensate |-> is_yes(answers[1]),
                            calibrate  |-> is_yes(answers[2]),
                            playback   |-> is_yes(answers[3])]
    /\ app_pc' = "raised"
    /\ app_error' = "TypeError"
    /\ UNCHANGED <<app_executed, files, expVars>>

InitApplication ==
    /\ TpIdle /\ ClIdle /\ ExpInit /\ CmIdle /\ FnIdle /\ CaIdle /\ AppIdle /\ SsIdle
    /\ files = {}
NextApplication == AppMain /\ UNCHANGED <<tpVars, clVars, cmVars, fnVars, caVars, ssVars>>
SpecApplication == InitApplication /\ [][NextApplication]_vars

\* C15: a run of the front end ends either because the operator declined to
\* continue, with no stage started, or with exactly the selected stages
\* started, in the order compensation, calibration, playback.
C15_StageSequencing ==
    /\ app_pc = "declined" => app_executed = <<>>
    /\ app_pc \in {"raised", "done"} => app_executed = SelectedStages(app_selected)

-----------------------------------------------------------------------------
(* experiment.py: a session of calls on one Experiment record *)

\* bound on the number of Experiment methods called in one session
MaxCalls == 4

\* the parameters of calibration.main (calibration.py line 219) and the
\* positional arguments Experiment.generate_calibration_multiplier passes
\* (experiment.py lines 64-67)
calibration_main_parameters ==
    <<"fs", "fft", "low_freq", "high_freq", "device_num", "input_channel",
      "output_channel", "filename", "target_amp", "amp_conversion", "amp_units">>
calibration_main_arguments ==
    <<"fs", "device_num", "input_channel", "output_channel", "filename",
      "target_amp", "amp_conversion", "amp_units">>

\* a Python call of a function whose parameters are all required, with
\* positional arguments only: it binds when the counts agree and raises
\* TypeError otherwise
py_call_binds(parameters, arguments) == Len(arguments) = Len(parameters)

\* the records and draws of SpecSession: two stimulus files, each with the
\* two bands of CmArgs
OtherFile == <<"other", ".wav">>
SsStimuli ==
    { [filename |-> name, fs |-> a.fs, fft |-> a.fft,
       low_freq |-> a.low_freq, high_freq |-> a.high_freq, target_amp |-> RInt(2)] :
      a \in CmArgs, name \in {StimulusFile, OtherFile} }
SsWhite(fs) == { w \in CmWhite(fs) : At(w, 0) = Rat(-1, 2) }

\* lines 50-53: the file Experiment.generate_calibration_multiplier selects
calibration_filename ==
    IF exp_compensated_filename # NoneName THEN exp_compensated_filename
    ELSE exp_stimulus.filename

\* lines 72-77: the file Experiment.play_for_experiment selects
playback_filename ==
    IF exp_calibrated_filename # NoneName THEN exp_calibrated_filename
    ELSE IF exp_compensated_filename # NoneName THEN exp_compensated_filename
    ELSE exp_stimulus.filename

\* Experiment.set_stimulus, lines 30-32 (Controller.add_stimulus): the record
\* takes a new Stimulus; its other fields and storage are left alone
ExpSetStimulus ==
    /\ ss_pc = "idle"
    /\ ss_calls < MaxCalls
    /\ \E stimulus \in SsStimuli : exp_stimulus' = stimulus
    /\ ss_calls' = ss_calls + 1
    /\ ss_op' = "set_stimulus"
    /\ ss_filename' = NoneName
    /\ ss_read' = NoneName
    /\ ss_error' = "none"
    /\ UNCHANGED <<files, exp_compensation_filter, exp_compensated_filename,
                   exp_calibration_mulitplier, exp_calibrated_filename, cmVars,
                   ss_pc, ss_channel, ss_recording>>

\* Experiment.generate_compensation_filter, lines 35-46, and the opening of
\* compensation.main: the parameters come from the record
ExpGenerateCompensationFilter ==
    /\ ss_pc = "idle"
    /\ ss_calls < MaxCalls
    /\ cm_pc = "idle"
    /\ \E white_noise \in SsWhite(exp_stimulus.fs) :
        main_opening([fs |-> exp_stimulus.fs, fft |-> exp_stimulus.fft,
                      low_freq |-> exp_stimulus.low_freq,
                      high_freq |-> exp_stimulus.high_freq,
                      stimulus_filename |-> exp_stimulus.filename],
                     ss_channel, white_noise)
    /\ cm_round' = 1
    /\ cm_pc' = "probe"
    /\ UNCHANGED <<files, expVars, cm_recording_of_noise, cm_compensation_filter,
                   cm_compensated_noise, cm_recording_of_compensated_noise,
                   cm_final_compensation_filter, cm_compensated_stimulus,
                   cm_recording_of_compensated_stimulus, cm_returned>>
    /\ ss_pc' = "compensation"
    /\ ss_calls' = ss_calls + 1
    /\ ss_op' = "compensation"
    /\ ss_filename' = exp_stimulus.filename
    /\ ss_read' = exp_stimulus.filename
    /\ ss_error' = "none"
    /\ UNCHANGED <<ss_channel, ss_recording>>

\* the passes of compensation.main inside the session
ExpCompensationProbe == CmProbe /\ UNCHANGED ssVars
ExpCompensationVerify == CmVerify /\ UNCHANGED ssVars
ExpCompensationAgain == CmAgain /\ UNCHANGED ssVars
ExpCompensationFinalize == CmFinalize /\ UNCHANGED ssVars
ExpCompensationStores == CmReturn /\ UNCHANGED ssVars
ExpCompensationFails == CmHardwareFails /\ UNCHANGED ssVars

\* Experiment.generate_compensation_filter is left, by return or by the
\* exception: the locals of compensation.main are gone
ExpCompensationLeaves ==
    /\ ss_pc = "compensation"
    /\ cm_pc \in {"returned", "raised", "value_error"}
    /\ ss_error' = IF cm_pc = "raised" THEN "PortAudioError"
                   ELSE IF cm_pc = "value_error" THEN "ValueError"
                   ELSE "none"
    /\ ss_pc' = "idle"
    /\ cm_pc' = "idle"
    /\ cm_args' = [fs |-> 0, fft |-> 0, low_freq |-> 0, high_freq |-> 0,
                   stimulus_filename |-> NoneName]
    /\ cm_channel' = [gain |-> One, delay |-> 0]
    /\ cm_round' = 0
    /\ cm_stimulus' = np_zeros(0)
    /\ cm_band' = [lo |-> 0, hi |-> 0]
    /\ cm_noise' = np_zeros(0)
    /\ cm_playback' = np_zeros(0)
    /\ cm_recording_of_noise' = np_zeros(0)
    /\ cm_compensation_filter' = NoneFilter
    /\ cm_compensated_noise' = np_zeros(0)
    /\ cm_recording_of_compensated_noise' = np_zeros(0)
    /\ cm_final_compensation_filter' = NoneFilter
    /\ cm_compensated_stimulus' = np_zeros(0)
    /\ cm_recording_of_compensated_stimulus' = np_zeros(0)
    /\ cm_returned' = <<NoneFilter, NoneName>>
    /\ UNCHANGED <<files, expVars, ss_channel, ss_calls, ss_op, ss_filename, ss_read,
                   ss_recording>>

\* Experiment.generate_calibration_multiplier, lines 48-67: the file is
\* selected, then calibration.main is called with eight positional arguments
\* where it requires eleven: TypeError leaves the method before main reads
\* the file, and nothing is assigned to the record
ExpGenerateCalibrationMultiplier ==
    /\ ss_pc = "idle"
    /\ ss_calls < MaxCalls
    /\ ~py_call_binds(calibration_main_parameters, calibration_main_arguments)
    /\ ss_calls' = ss_calls + 1
    /\ ss_op' = "calibration"
    /\ ss_filename' = calibration_filename
    /\ ss_read' = NoneName
    /\ ss_error' = "TypeError"
    /\ UNCHANGED <<files, expVars, cmVars, ss_pc, ss_channel, ss_recording>>

\* Experiment.play_for_experiment, lines 69-84, and playback.main: the file
\* is selected and read, and played without padding; sd.playrec may raise
ExpPlayForExperiment ==
    /\ ss_pc = "idle"
    /\ ss_calls < MaxCalls
    /\ ss_calls' = ss_calls + 1
    /\ ss_op' = "playback"
    /\ ss_filename' = playback_filename
    /\ ss_read' = playback_filename
    /\ LET stimulus == sf_read(files, playback_filename)
       IN  \E hardware_fails \in BOOLEAN :
            IF hardware_fails
            THEN /\ ss_error' = "PortAudioError"
                 /\ UNCHANGED ss_recording
            ELSE /\ ss_error' = "none"
                 /\ ss_recording' =
                        playback_play_and_record(stimulus, exp_stimulus.fs, FALSE,
                                                 sd_playrec(stimulus, ss_channel)).value
    /\ UNCHANGED <<files, expVars, cmVars, ss_pc, ss_channel>>

\* a record whose stimulus was set, and the hardware chain of the session
InitSession ==
    /\ TpIdle /\ ClIdle /\ CmIdle /\ FnIdle /\ CaIdle /\ AppIdle
    /\ \E stimulus \in CmStimuli :
        files = { <<StimulusFile, stimulus>>, <<OtherFile, Arr(<<RInt(-1), Rat(1, 4)>>)>> }
    /\ exp_compensation_filter = NoneFilter
    /\ exp_compensated_filename = NoneName
    /\ exp_stimulus \in SsStimuli
    /\ exp_calibration_mulitplier = NoneMultiplier
    /\ exp_calibrated_filename = NoneName
    /\ ss_pc = "idle"
    /\ ss_channel \in CmChannels
    /\ ss_calls = 0
    /\ ss_op = "none"
    /\ ss_filename = NoneName
    /\ ss_read = NoneName
    /\ ss_error = "none"
    /\ ss_recording = np_zeros(0)
NextSession ==
    \/ ExpSetStimulus /\ UNCHANGED <<tpVars, clVars, fnVars, caVars, appVars>>
    \/ ExpGenerateCompensationFilter /\ UNCHANGED <<tpVars, clVars, fnVars, caVars, appVars>>
    \/ ExpCompensationProbe /\ UNCHANGED <<tpVars, clVars, fnVars, caVars, appVars>>
    \/ ExpCompensationVerify /\ UNCHANGED <<tpVars, clVars, fnVars, caVars, appVars>>
    \/ ExpCompensationAgain /\ UNCHANGED <<tpVars, clVars, fnVars, caVars, appVars>>
    \/ ExpCompensationFinalize /\ UNCHANGED <<tpVars, clVars, fnVars, caVars, appVars>>
    \/ ExpCompensationStores /\ UNCHANGED <<tpVars, clVars, fnVars, caVars, appVars>>
    \/ ExpCompensationFails /\ UNCHANGED <<tpVars, clVars, fnVars, caVars, appVars>>
    \/ ExpCompensationLeaves /\ UNCHANGED <<tpVars, clVars, fnVars, caVars, appVars>>
    \/ ExpGenerateCalibrationMultiplier /\ UNCHANGED <<tpVars, clVars, fnVars, caVars, appVars>>
    \/ ExpPlayForExperiment /\ UNCHANGED <<tpVars, clVars, fnVars, caVars, appVars>>
SpecSession == InitSession /\ [][NextSession]_vars

\* C16: when Experiment.generate_calibration_multiplier was called and the
\* hardware did not fail, the call completed without an exception and the
\* record holds a multiplier and a calibrated file name.
C16_CalibrationStored ==
    (ss_op = "calibration" /\ ss_error # "PortAudioError") =>
        /\ ss_error = "none"
        /\ exp_calibration_mulitplier # NoneMultiplier
        /\ exp_calibrated_filename # NoneName

\* C20: a calibration call reads the compensated file when a compensation
\* run of the session has written one and the original stimulus file
\* otherwise; a playback call reads the calibrated file when there is one,
\* otherwise the compensated file when there is one, otherwise the original
\* stimulus file.
C20_FileSelection ==
    LET original    == exp_stimulus.filename
        compensated == output_filename("compensated_", original)
        calibrated  == output_filename("calibrated_", compensated)
        calibrated_original == output_filename("calibrated_", original)
    IN  /\ ss_op = "calibration" =>
              ss_read = IF file_exists(compensated) THEN compensated ELSE original
        /\ ss_op = "playback" =>
              ss_read = IF file_exists(calibrated) THEN calibrated
                        ELSE IF file_exists(calibrated_original) THEN calibrated_original
                        ELSE IF file_exists(compensated) THEN compensated
                        ELSE original

\* C21: when a play_and_record call of a compensation run fails, the step
\* that raises and every later step of that call leave storage and the
\* record's compensation_filter and compensated_filename as they were; the
\* only step after the failure is the one in which the exception leaves
\* Experiment.generate_compensation_filter, so nothing is emitted again; and
\* storage and the record change only in the step in which main returns,
\* which a failed run never takes.
C21_HardwareFailure ==
    [][ /\ (cm_pc = "raised" \/ cm_pc' = "raised") =>
              /\ files' = files
              /\ exp_compensation_filter' = exp_compensation_filter
              /\ exp_compensated_filename' = exp_compensated_filename
        /\ cm_pc = "raised" =>
              /\ cm_pc' = "idle"
              /\ ss_pc' = "idle"
              /\ ss_error' = "PortAudioError"
        /\ (files' # files
              \/ exp_compensation_filter' # exp_compensation_filter
              \/ exp_compensated_filename' # exp_compensated_filename) =>
              cm_pc = "final_play" /\ cm_pc' = "returned"
        /\ cm_pc = "returned" => cm_pc' = "idle" /\ ss_error' = "none"
      ]_vars

\* a session whose first compensation run stored its results and whose next
\* run failed: the record still holds the results of the first
C21_Witness ==
    /\ ss_pc = "idle"
    /\ ss_op = "compensation"
    /\ ss_error = "PortAudioError"
    /\ ss_calls = 2
    /\ exp_compensated_filename = output_filename("compensated_", exp_stimulus.filename)
    /\ exp_compensation_filter # NoneFilter
    /\ file_exists(exp_compensated_filename)

====
